---- MODULE Spec2Model ----
(***************************************************************************)
(* Constant-product AMM: Factory (pair registry), Pair (reserve ledger     *)
(* with liquidity shares) and Router (quotes and multi-hop swaps), from    *)
(* src/blockchain/contracts/{Factory,Pair,Router}.sol.                     *)
(*                                                                         *)
(* Every external call is one atomic action (an EVM transaction): a call   *)
(* that reverts changes nothing but `last`, the record of the last call.   *)
(*                                                                         *)
(* Integer widths are scaled down so that TLC can enumerate them: uint112  *)
(* is ReserveBits wide, uint256 is 31 bits wide.  The scaling keeps the    *)
(* code's relation MaxUint112^2 * 1000^2 <= MaxUint256, so, as in the      *)
(* code, the right-hand side of the fee check never overflows.  The fee    *)
(* constants 1000, 997 and 3 are the code's.  Pair.blockTimestampLast and  *)
(* the events are not part of the model.                                   *)
(***************************************************************************)
EXTENDS Integers, Sequences, FiniteSets, TLC

\* ------------------------------------------------------------- bounds
\* tokens deployed (addresses 1..NumTokens, ordered as the addresses are)
NumTokens == 3
\* width of the reserve fields (uint112 in the code)
ReserveBits == 3
\* what the deployer of token 1 mints to the first user before any trading:
\* more than a reserve field holds
InitialBalance == 9
\* what the deployers of the other tokens mint to the first user
SmallBalance == 5
\* the largest value of one token transfer or share transfer a user makes
MaxTransfer == 1
\* the largest value of one share transfer
MaxShareTransfer == 2
\* the largest input of a router swap
MaxAmountIn == 2
\* the largest share supply of a pair
MaxShares == 9
\* the largest output a direct swap asks for
MaxOut == 2
\* the largest amount of a token held by the user who makes a first deposit
MaxFirstDeposit == 9
MaxSqrtInput == 150

\* ---------------------------------------------------------- addresses
ZERO == 0
ROUTER == 20
Tokens == 1..NumTokens
Users == {11, 12}
NumPairs == (NumTokens * (NumTokens - 1)) \div 2
\* the address of the i-th pair the factory creates (new Pair(...))
PairAddr(i) == 100 + i
PairAddrs == {PairAddr(i) : i \in 1..NumPairs}
Holders == Users \cup {ROUTER} \cup PairAddrs

\* ------------------------------------------------------------- widths
MaxUint256 == 2147483647
MaxUint112 == 2^ReserveBits - 1
\* uint112(x): an explicit narrowing cast keeps the low bits
Uint112(x) == x % (MaxUint112 + 1)
\* checked arithmetic of Solidity 0.8: these say when it panics
MulOverflows(a, b) == b # 0 /\ a > MaxUint256 \div b
AddOverflows(a, b) == a > MaxUint256 - b

VARIABLES
    getPair,        \* Factory.getPair: <<tokenA, tokenB>> -> pair address or ZERO
    allPairs,       \* Factory.allPairs
    token0,         \* Pair.token0 of each pair address (ZERO: not created)
    token1,         \* Pair.token1
    reserve0,       \* Pair.reserve0
    reserve1,       \* Pair.reserve1
    totalSupply,    \* Pair.totalSupply
    balanceOf,      \* Pair.balanceOf: liquidity shares of each holder
    allowance,      \* Pair.allowance: <<owner, spender>> -> value
    tokenBalance,   \* the tokens' ledgers: tokenBalance[t][holder]
    last            \* the last call: operation, sender, arguments, outcome

vars == <<getPair, allPairs, token0, token1, reserve0, reserve1, totalSupply,
          balanceOf, allowance, tokenBalance, last>>
factoryVars == <<getPair, allPairs>>
pairVars == <<token0, token1, reserve0, reserve1, totalSupply, balanceOf, allowance>>

OK == "OK"
Call(op, sender, args, err, ret) ==
    [op |-> op, sender |-> sender, args |-> args, err |-> err, ret |-> ret,
     steps |-> <<>>]

\* a reverted call: nothing changes but the record of the call
RevertWith(op, sender, args, err, ret) ==
    /\ last' = Call(op, sender, args, err, ret)
    /\ UNCHANGED <<getPair, allPairs, token0, token1, reserve0, reserve1,
                   totalSupply, balanceOf, allowance, tokenBalance>>
Revert(op, sender, args, err) == RevertWith(op, sender, args, err, <<>>)

\* --------------------------------------------------------- pure helpers
min(a, b) == IF a < b THEN a ELSE b

\* faulty variant: the average of the iteration is rounded up
RECURSIVE sqrtLoopRoundsUp(_, _, _)
sqrtLoopRoundsUp(y, z, x) ==
    IF x < z THEN sqrtLoopRoundsUp(y, x, (y \div x + x + 1) \div 2) ELSE z

RECURSIVE sqrtLoop(_, _, _)
sqrtLoop(y, z, x) == IF x < z THEN sqrtLoop(y, x, (y \div x + x) \div 2) ELSE z

\* faulty variant: the first guess of the iteration taken as the result
sqrtFirstGuess(y) == IF y > 3 THEN y \div 2 + 1
                     ELSE IF y # 0 THEN 1 ELSE 0

sqrt(y) == IF y > 3 THEN sqrtLoop(y, y, y \div 2 + 1)
           ELSE IF y # 0 THEN 1 ELSE 0

\* ------------------------------------------------------------- Factory
\* createPair sorts the two tokens: the lower address is token0
SortedLow(tokenA, tokenB) == IF tokenA < tokenB THEN tokenA ELSE tokenB
SortedHigh(tokenA, tokenB) == IF tokenA < tokenB THEN tokenB ELSE tokenA

\* faulty variant: the requires without the one on an existing pair
CreatePairChecksNoExists(gp, tokenA, tokenB) ==
    IF tokenA = tokenB THEN "IDENTICAL"
    ELSE IF SortedLow(tokenA, tokenB) = ZERO THEN "ZERO"
    ELSE OK

\* faulty variant: the zero test is on tokenA instead of on token0
CreatePairChecksZeroOnA(gp, tokenA, tokenB) ==
    IF tokenA = tokenB THEN "IDENTICAL"
    ELSE IF tokenA = ZERO THEN "ZERO"
    ELSE IF gp[<<SortedLow(tokenA, tokenB), SortedHigh(tokenA, tokenB)>>] # ZERO
         THEN "EXISTS"
    ELSE OK

\* the three requires of createPair, in the order of the code
CreatePairChecks(gp, tokenA, tokenB) ==
    IF tokenA = tokenB THEN "IDENTICAL"
    ELSE IF SortedLow(tokenA, tokenB) = ZERO THEN "ZERO"
    ELSE IF gp[<<SortedLow(tokenA, tokenB), SortedHigh(tokenA, tokenB)>>] # ZERO
         THEN "EXISTS"
    ELSE OK

\* faulty variant: the lookup is written in the sorted direction only
RegisterOneWay(gp, t0, t1, pair) == [gp EXCEPT ![<<t0, t1>>] = pair]

\* the lookup is written in both directions
Register(gp, t0, t1, pair) ==
    [gp EXCEPT ![<<t0, t1>>] = pair, ![<<t1, t0>>] = pair]

\* faulty variant: the new pair is put in front of allPairs
CreatePairPrepends(sender, tokenA, tokenB) ==
    LET t0 == SortedLow(tokenA, tokenB)
        t1 == SortedHigh(tokenA, tokenB)
        pair == PairAddr(Len(allPairs) + 1)
        args == <<tokenA, tokenB>>
        err == CreatePairChecks(getPair, tokenA, tokenB)
    IN  IF err # OK THEN Revert("createPair", sender, args, err)
        ELSE /\ getPair' = Register(getPair, t0, t1, pair)
             /\ allPairs' = <<pair>> \o allPairs
             /\ token0' = [token0 EXCEPT ![pair] = t0]
             /\ token1' = [token1 EXCEPT ![pair] = t1]
             /\ last' = Call("createPair", sender, args, OK, <<pair>>)
             /\ UNCHANGED <<reserve0, reserve1, totalSupply, balanceOf, allowance,
                            tokenBalance>>

\* faulty variant: the pair is constructed on the tokens as they were passed
CreatePairUnsorted(sender, tokenA, tokenB) ==
    LET t0 == SortedLow(tokenA, tokenB)
        t1 == SortedHigh(tokenA, tokenB)
        pair == PairAddr(Len(allPairs) + 1)
        args == <<tokenA, tokenB>>
        err == CreatePairChecks(getPair, tokenA, tokenB)
    IN  IF err # OK THEN Revert("createPair", sender, args, err)
        ELSE /\ getPair' = Register(getPair, t0, t1, pair)
             /\ allPairs' = Append(allPairs, pair)
             /\ token0' = [token0 EXCEPT ![pair] = tokenA]
             /\ token1' = [token1 EXCEPT ![pair] = tokenB]
             /\ last' = Call("createPair", sender, args, OK, <<pair>>)
             /\ UNCHANGED <<reserve0, reserve1, totalSupply, balanceOf, allowance,
                            tokenBalance>>

CreatePair(sender, tokenA, tokenB) ==
    LET t0 == SortedLow(tokenA, tokenB)
        t1 == SortedHigh(tokenA, tokenB)
        pair == PairAddr(Len(allPairs) + 1)
        args == <<tokenA, tokenB>>
        err == CreatePairChecks(getPair, tokenA, tokenB)
    IN  IF err # OK THEN Revert("createPair", sender, args, err)
        ELSE /\ getPair' = Register(getPair, t0, t1, pair)
             /\ allPairs' = Append(allPairs, pair)
             /\ token0' = [token0 EXCEPT ![pair] = t0]
             /\ token1' = [token1 EXCEPT ![pair] = t1]
             /\ last' = Call("createPair", sender, args, OK, <<pair>>)
             /\ UNCHANGED <<reserve0, reserve1, totalSupply, balanceOf, allowance,
                            tokenBalance>>

\* ------------------------------------------- the tokens (custody provider)
\* faulty variant: a pair is reported all that the pairs hold of the token
RECURSIVE TokenHeldByPairs(_, _, _)
TokenHeldByPairs(tb, t, n) ==
    IF n = 0 THEN 0 ELSE tb[t][PairAddr(n)] + TokenHeldByPairs(tb, t, n - 1)
TokenBalanceOfAnyPair(tb, t, holder) ==
    IF holder \in PairAddrs THEN TokenHeldByPairs(tb, t, NumPairs) ELSE tb[t][holder]

\* balanceOf(holder) of token t
TokenBalanceOf(tb, t, holder) == tb[t][holder]

\* the ledger of token t after `value` moved from `from` to `to`
MoveTokens(tb, t, from, to, value) ==
    [tb EXCEPT ![t][from] = @ - value, ![t][to] = @ + value]

\* transfer(to, value) of token t called by `from`: a faithful token moves
\* the value or fails
TokenTransferFails(tb, t, from, value) == tb[t][from] < value

\* a user sends tokens (to a pair: a deposit or a donation)
TokenTransfer(t, from, to, value) ==
    IF TokenTransferFails(tokenBalance, t, from, value)
    THEN Revert("token.transfer", from, <<t, to, value>>, "TRANSFER_FAILED")
    ELSE /\ tokenBalance' = MoveTokens(tokenBalance, t, from, to, value)
         /\ last' = Call("token.transfer", from, <<t, to, value>>, OK, <<>>)
         /\ UNCHANGED <<factoryVars, pairVars>>

\* ---------------------------------------------------- Pair: shares (ERC20)
\* _mint
MintShares(bal, to, value) == [bal EXCEPT ![to] = @ + value]
\* faulty variant: the burned shares stay with their holder
BurnSharesNoDebit(bal, from, value) == bal
\* _burn
BurnShares(bal, from, value) == [bal EXCEPT ![from] = @ - value]
\* faulty variant: the sender's balance is not debited
MoveSharesNoDebit(bal, from, to, value) == [bal EXCEPT ![to] = @ + value]
\* the two balance updates of transfer and transferFrom
MoveShares(bal, from, to, value) == [bal EXCEPT ![from] = @ - value, ![to] = @ + value]

Approve(p, sender, spender, value) ==
    /\ allowance' = [allowance EXCEPT ![p][<<sender, spender>>] = value]
    /\ last' = Call("approve", sender, <<p, spender, value>>, OK, <<>>)
    /\ UNCHANGED <<factoryVars, token0, token1, reserve0, reserve1, totalSupply,
                   balanceOf, tokenBalance>>

\* faulty variant: shares sent to the pair itself are taken off totalSupply
TransferBurnsAtPair(p, sender, to, value) ==
    LET args == <<p, to, value>> IN
    IF balanceOf[p][sender] < value THEN Revert("transfer", sender, args, "Panic")
    ELSE IF sender # to /\ AddOverflows(balanceOf[p][to], value)
         THEN Revert("transfer", sender, args, "Panic")
    ELSE /\ balanceOf' = [balanceOf EXCEPT ![p] = MoveShares(@, sender, to, value)]
         /\ last' = Call("transfer", sender, args, OK, <<>>)
         /\ totalSupply' = [totalSupply EXCEPT ![p] = IF to = p THEN @ - value ELSE @]
         /\ UNCHANGED <<factoryVars, token0, token1, reserve0, reserve1,
                        allowance, tokenBalance>>

Transfer(p, sender, to, value) ==
    LET args == <<p, to, value>> IN
    IF balanceOf[p][sender] < value THEN Revert("transfer", sender, args, "Panic")
    ELSE IF sender # to /\ AddOverflows(balanceOf[p][to], value)
         THEN Revert("transfer", sender, args, "Panic")
    ELSE /\ balanceOf' = [balanceOf EXCEPT ![p] = MoveShares(@, sender, to, value)]
         /\ last' = Call("transfer", sender, args, OK, <<>>)
         /\ UNCHANGED <<factoryVars, token0, token1, reserve0, reserve1, totalSupply,
                        allowance, tokenBalance>>

\* faulty variant: a successful transferFrom leaves the allowance as it was
TransferFromKeepsAllowance(p, sender, from, to, value) ==
    LET args == <<p, from, to, value>>
        allowed == allowance[p][<<from, sender>>]
    IN  IF allowed # MaxUint256 /\ allowed < value
        THEN Revert("transferFrom", sender, args, "Panic")
        ELSE IF balanceOf[p][from] < value THEN Revert("transferFrom", sender, args, "Panic")
        ELSE IF from # to /\ AddOverflows(balanceOf[p][to], value)
             THEN Revert("transferFrom", sender, args, "Panic")
        ELSE /\ balanceOf' = [balanceOf EXCEPT ![p] = MoveShares(@, from, to, value)]
             /\ last' = Call("transferFrom", sender, args, OK, <<>>)
             /\ UNCHANGED <<factoryVars, token0, token1, reserve0, reserve1, totalSupply,
                            allowance, tokenBalance>>

TransferFrom(p, sender, from, to, value) ==
    LET args == <<p, from, to, value>>
        allowed == allowance[p][<<from, sender>>]
    IN  IF allowed # MaxUint256 /\ allowed < value
        THEN Revert("transferFrom", sender, args, "Panic")
        ELSE IF balanceOf[p][from] < value THEN Revert("transferFrom", sender, args, "Panic")
        ELSE IF from # to /\ AddOverflows(balanceOf[p][to], value)
             THEN Revert("transferFrom", sender, args, "Panic")
        ELSE /\ allowance' = IF allowed # MaxUint256
                             THEN [allowance EXCEPT ![p][<<from, sender>>] = allowed - value]
                             ELSE allowance
             /\ balanceOf' = [balanceOf EXCEPT ![p] = MoveShares(@, from, to, value)]
             /\ last' = Call("transferFrom", sender, args, OK, <<>>)
             /\ UNCHANGED <<factoryVars, token0, token1, reserve0, reserve1, totalSupply,
                            tokenBalance>>

\* --------------------------------------------------- Pair: reserves
\* _update: the balances are narrowed to the reserve fields
UpdateReserve(balance) == Uint112(balance)

\* ------------------------------------------------------- Pair: mint
\* faulty variant: a later deposit always earns one share more
MintLiquidityOneMore(amount0, amount1, supply, r0, r1) ==
    IF supply = 0
    THEN IF MulOverflows(amount0, amount1) THEN [err |-> "Panic", liquidity |-> 0]
         ELSE [err |-> OK, liquidity |-> sqrt(amount0 * amount1)]
    ELSE IF MulOverflows(amount0, supply) \/ r0 = 0 THEN [err |-> "Panic", liquidity |-> 0]
    ELSE IF MulOverflows(amount1, supply) \/ r1 = 0 THEN [err |-> "Panic", liquidity |-> 0]
    ELSE [err |-> OK,
          liquidity |-> min((amount0 * supply) \div r0, (amount1 * supply) \div r1) + 1]

\* faulty variant: a later deposit is valued at the better of the two ratios
MintLiquidityAtBetterRatio(amount0, amount1, supply, r0, r1) ==
    IF supply = 0
    THEN IF MulOverflows(amount0, amount1) THEN [err |-> "Panic", liquidity |-> 0]
         ELSE [err |-> OK, liquidity |-> sqrt(amount0 * amount1)]
    ELSE IF MulOverflows(amount0, supply) \/ r0 = 0 THEN [err |-> "Panic", liquidity |-> 0]
    ELSE IF MulOverflows(amount1, supply) \/ r1 = 0 THEN [err |-> "Panic", liquidity |-> 0]
    ELSE [err |-> OK,
          liquidity |-> IF (amount0 * supply) \div r0 > (amount1 * supply) \div r1
                        THEN (amount0 * supply) \div r0
                        ELSE (amount1 * supply) \div r1]

\* faulty variant: the first deposit is valued by the sum of the amounts
MintLiquidityOfSum(amount0, amount1, supply, r0, r1) ==
    IF supply = 0
    THEN IF AddOverflows(amount0, amount1) THEN [err |-> "Panic", liquidity |-> 0]
         ELSE [err |-> OK, liquidity |-> sqrt(amount0 + amount1)]
    ELSE IF MulOverflows(amount0, supply) \/ r0 = 0 THEN [err |-> "Panic", liquidity |-> 0]
    ELSE IF MulOverflows(amount1, supply) \/ r1 = 0 THEN [err |-> "Panic", liquidity |-> 0]
    ELSE [err |-> OK,
          liquidity |-> min((amount0 * supply) \div r0, (amount1 * supply) \div r1)]

\* the shares a deposit of (amount0, amount1) earns, or the error
MintLiquidity(amount0, amount1, supply, r0, r1) ==
    IF supply = 0
    THEN IF MulOverflows(amount0, amount1) THEN [err |-> "Panic", liquidity |-> 0]
         ELSE [err |-> OK, liquidity |-> sqrt(amount0 * amount1)]
    ELSE IF MulOverflows(amount0, supply) \/ r0 = 0 THEN [err |-> "Panic", liquidity |-> 0]
    ELSE IF MulOverflows(amount1, supply) \/ r1 = 0 THEN [err |-> "Panic", liquidity |-> 0]
    ELSE [err |-> OK,
          liquidity |-> min((amount0 * supply) \div r0, (amount1 * supply) \div r1)]

\* mint as a function of the state: tb the token ledgers, r0, r1 and supply
\* the pair's reserves and totalSupply, bal its share balances; the error, or
\* the state it leaves and the values it returns
MintResult(tb, p, r0, r1, supply, bal, to) ==
    LET balance0 == TokenBalanceOf(tb, token0[p], p)
        balance1 == TokenBalanceOf(tb, token1[p], p)
        amount0 == balance0 - r0
        amount1 == balance1 - r1
        m == MintLiquidity(amount0, amount1, supply, r0, r1)
        fail(e) == [err |-> e, tb |-> tb, r0 |-> r0, r1 |-> r1, supply |-> supply,
                    bal |-> bal, ret |-> <<>>]
    IN  IF balance0 < r0 \/ balance1 < r1 THEN fail("Panic")
        ELSE IF amount0 = 0 \/ amount1 = 0 THEN fail("InsufficientLiquidity")
        ELSE IF m.err # OK THEN fail(m.err)
        ELSE IF m.liquidity = 0 THEN fail("InsufficientLiquidity")
        ELSE IF AddOverflows(supply, m.liquidity) THEN fail("Panic")
        ELSE [err |-> OK, tb |-> tb, r0 |-> UpdateReserve(balance0),
              r1 |-> UpdateReserve(balance1), supply |-> supply + m.liquidity,
              bal |-> MintShares(bal, to, m.liquidity),
              ret |-> <<m.liquidity, amount0, amount1>>]

Mint(p, sender, to) ==
    LET args == <<p, to>>
        m == MintResult(tokenBalance, p, reserve0[p], reserve1[p], totalSupply[p],
                        balanceOf[p], to)
    IN  IF m.err # OK THEN Revert("mint", sender, args, m.err)
        ELSE /\ totalSupply' = [totalSupply EXCEPT ![p] = m.supply]
             /\ balanceOf' = [balanceOf EXCEPT ![p] = m.bal]
             /\ reserve0' = [reserve0 EXCEPT ![p] = m.r0]
             /\ reserve1' = [reserve1 EXCEPT ![p] = m.r1]
             /\ last' = Call("mint", sender, args, OK, m.ret)
             /\ UNCHANGED <<factoryVars, token0, token1, allowance, tokenBalance>>

\* ------------------------------------------------------- Pair: burn
\* faulty variant: the reserves are set to the balances read before the payout
BurnResultStaleBalances(tb, p, r0, r1, supply, bal, to) ==
    LET liquidity == bal[p]
        amount0 == (liquidity * r0) \div supply
        amount1 == (liquidity * r1) \div supply
        tb1 == MoveTokens(tb, token0[p], p, to, amount0)
        tb2 == MoveTokens(tb1, token1[p], p, to, amount1)
        fail(e) == [err |-> e, tb |-> tb, r0 |-> r0, r1 |-> r1, supply |-> supply,
                    bal |-> bal, ret |-> <<>>]
    IN  IF MulOverflows(liquidity, r0) \/ supply = 0 THEN fail("Panic")
        ELSE IF MulOverflows(liquidity, r1) THEN fail("Panic")
        ELSE IF supply < liquidity THEN fail("Panic")
        ELSE IF TokenTransferFails(tb, token0[p], p, amount0) THEN fail("TRANSFER_FAILED")
        ELSE IF TokenTransferFails(tb1, token1[p], p, amount1) THEN fail("TRANSFER_FAILED")
        ELSE [err |-> OK, tb |-> tb2,
              r0 |-> UpdateReserve(TokenBalanceOf(tb, token0[p], p)),
              r1 |-> UpdateReserve(TokenBalanceOf(tb, token1[p], p)),
              supply |-> supply - liquidity,
              bal |-> BurnShares(bal, p, liquidity),
              ret |-> <<amount0, amount1, liquidity>>]

\* burn as a function of the state, as MintResult
BurnResult(tb, p, r0, r1, supply, bal, to) ==
    LET liquidity == bal[p]
        amount0 == (liquidity * r0) \div supply
        amount1 == (liquidity * r1) \div supply
        tb1 == MoveTokens(tb, token0[p], p, to, amount0)
        tb2 == MoveTokens(tb1, token1[p], p, to, amount1)
        fail(e) == [err |-> e, tb |-> tb, r0 |-> r0, r1 |-> r1, supply |-> supply,
                    bal |-> bal, ret |-> <<>>]
    IN  IF MulOverflows(liquidity, r0) \/ supply = 0 THEN fail("Panic")
        ELSE IF MulOverflows(liquidity, r1) THEN fail("Panic")
        ELSE IF supply < liquidity THEN fail("Panic")
        ELSE IF TokenTransferFails(tb, token0[p], p, amount0) THEN fail("TRANSFER_FAILED")
        ELSE IF TokenTransferFails(tb1, token1[p], p, amount1) THEN fail("TRANSFER_FAILED")
        ELSE [err |-> OK, tb |-> tb2,
              r0 |-> UpdateReserve(TokenBalanceOf(tb2, token0[p], p)),
              r1 |-> UpdateReserve(TokenBalanceOf(tb2, token1[p], p)),
              supply |-> supply - liquidity,
              bal |-> BurnShares(bal, p, liquidity),
              ret |-> <<amount0, amount1, liquidity>>]

Burn(p, sender, to) ==
    LET args == <<p, to>>
        b == BurnResult(tokenBalance, p, reserve0[p], reserve1[p], totalSupply[p],
                        balanceOf[p], to)
    IN  IF b.err # OK THEN Revert("burn", sender, args, b.err)
        ELSE /\ balanceOf' = [balanceOf EXCEPT ![p] = b.bal]
             /\ totalSupply' = [totalSupply EXCEPT ![p] = b.supply]
             /\ tokenBalance' = b.tb
             /\ reserve0' = [reserve0 EXCEPT ![p] = b.r0]
             /\ reserve1' = [reserve1 EXCEPT ![p] = b.r1]
             /\ last' = Call("burn", sender, args, OK, b.ret)
             /\ UNCHANGED <<factoryVars, token0, token1, allowance>>

\* ------------------------------------------------------- Pair: swap
\* the implied input of one token
ImpliedIn(balance, r, amountOut) ==
    IF balance > r - amountOut THEN balance - (r - amountOut) ELSE 0

\* faulty variant: the balances are compared without the fee taken off
FeeCheckNoFee(balance0, balance1, amountIn0, amountIn1, r0, r1) ==
    IF MulOverflows(balance0, 1000) \/ MulOverflows(balance1, 1000) THEN "Panic"
    ELSE LET balance0Adjusted == balance0 * 1000
             balance1Adjusted == balance1 * 1000
         IN  IF MulOverflows(balance0Adjusted, balance1Adjusted) THEN "Panic"
             ELSE IF MulOverflows(r0 * r1, 1000 * 1000) THEN "Panic"
             ELSE IF balance0Adjusted * balance1Adjusted < r0 * r1 * (1000 * 1000)
                  THEN "InsufficientInput"
             ELSE OK

\* the 0.3% fee check of swap: OK, or the error it ends with
FeeCheck(balance0, balance1, amountIn0, amountIn1, r0, r1) ==
    IF MulOverflows(balance0, 1000) \/ MulOverflows(balance1, 1000) THEN "Panic"
    ELSE LET balance0Adjusted == balance0 * 1000 - amountIn0 * 3
             balance1Adjusted == balance1 * 1000 - amountIn1 * 3
         IN  IF MulOverflows(balance0Adjusted, balance1Adjusted) THEN "Panic"
             ELSE IF MulOverflows(r0 * r1, 1000 * 1000) THEN "Panic"
             ELSE IF balance0Adjusted * balance1Adjusted < r0 * r1 * (1000 * 1000)
                  THEN "InsufficientInput"
             ELSE OK

\* faulty variant: an output equal to the whole reserve passes the reserve test
SwapResultDrainable(tb, p, r0, r1, amountOut0, amountOut1, to) ==
    LET tb1 == IF amountOut0 > 0 THEN MoveTokens(tb, token0[p], p, to, amountOut0) ELSE tb
        tb2 == IF amountOut1 > 0 THEN MoveTokens(tb1, token1[p], p, to, amountOut1) ELSE tb1
        balance0 == TokenBalanceOf(tb2, token0[p], p)
        balance1 == TokenBalanceOf(tb2, token1[p], p)
        amountIn0 == ImpliedIn(balance0, r0, amountOut0)
        amountIn1 == ImpliedIn(balance1, r1, amountOut1)
        fail(e) == [err |-> e, tb |-> tb, r0 |-> r0, r1 |-> r1, in0 |-> 0, in1 |-> 0]
    IN  IF amountOut0 = 0 /\ amountOut1 = 0 THEN fail("InsufficientOutput")
        ELSE IF amountOut0 > r0 \/ amountOut1 > r1 THEN fail("InsufficientLiquidity")
        ELSE IF amountOut0 > 0 /\ TokenTransferFails(tb, token0[p], p, amountOut0)
             THEN fail("TRANSFER_FAILED")
        ELSE IF amountOut1 > 0 /\ TokenTransferFails(tb1, token1[p], p, amountOut1)
             THEN fail("TRANSFER_FAILED")
        ELSE IF amountIn0 = 0 /\ amountIn1 = 0 THEN fail("InsufficientInput")
        ELSE LET e == FeeCheck(balance0, balance1, amountIn0, amountIn1, r0, r1)
             IN  IF e # OK THEN fail(e)
                 ELSE [err |-> OK, tb |-> tb2, r0 |-> UpdateReserve(balance0),
                       r1 |-> UpdateReserve(balance1), in0 |-> amountIn0, in1 |-> amountIn1]

\* faulty variant: the reserve test comes before the test for no output
SwapResultReserveFirst(tb, p, r0, r1, amountOut0, amountOut1, to) ==
    LET tb1 == IF amountOut0 > 0 THEN MoveTokens(tb, token0[p], p, to, amountOut0) ELSE tb
        tb2 == IF amountOut1 > 0 THEN MoveTokens(tb1, token1[p], p, to, amountOut1) ELSE tb1
        balance0 == TokenBalanceOf(tb2, token0[p], p)
        balance1 == TokenBalanceOf(tb2, token1[p], p)
        amountIn0 == ImpliedIn(balance0, r0, amountOut0)
        amountIn1 == ImpliedIn(balance1, r1, amountOut1)
        fail(e) == [err |-> e, tb |-> tb, r0 |-> r0, r1 |-> r1, in0 |-> 0, in1 |-> 0]
    IN  IF amountOut0 >= r0 \/ amountOut1 >= r1 THEN fail("InsufficientLiquidity")
        ELSE IF amountOut0 = 0 /\ amountOut1 = 0 THEN fail("InsufficientOutput")
        ELSE IF amountOut0 > 0 /\ TokenTransferFails(tb, token0[p], p, amountOut0)
             THEN fail("TRANSFER_FAILED")
        ELSE IF amountOut1 > 0 /\ TokenTransferFails(tb1, token1[p], p, amountOut1)
             THEN fail("TRANSFER_FAILED")
        ELSE IF amountIn0 = 0 /\ amountIn1 = 0 THEN fail("InsufficientInput")
        ELSE LET e == FeeCheck(balance0, balance1, amountIn0, amountIn1, r0, r1)
             IN  IF e # OK THEN fail(e)
                 ELSE [err |-> OK, tb |-> tb2, r0 |-> UpdateReserve(balance0),
                       r1 |-> UpdateReserve(balance1), in0 |-> amountIn0, in1 |-> amountIn1]

\* faulty variant: a swap that asks for no output at all is let through
SwapResultNoOutputTest(tb, p, r0, r1, amountOut0, amountOut1, to) ==
    LET tb1 == IF amountOut0 > 0 THEN MoveTokens(tb, token0[p], p, to, amountOut0) ELSE tb
        tb2 == IF amountOut1 > 0 THEN MoveTokens(tb1, token1[p], p, to, amountOut1) ELSE tb1
        balance0 == TokenBalanceOf(tb2, token0[p], p)
        balance1 == TokenBalanceOf(tb2, token1[p], p)
        amountIn0 == ImpliedIn(balance0, r0, amountOut0)
        amountIn1 == ImpliedIn(balance1, r1, amountOut1)
        fail(e) == [err |-> e, tb |-> tb, r0 |-> r0, r1 |-> r1, in0 |-> 0, in1 |-> 0]
    IN  IF amountOut0 >= r0 \/ amountOut1 >= r1 THEN fail("InsufficientLiquidity")
        ELSE IF amountOut0 > 0 /\ TokenTransferFails(tb, token0[p], p, amountOut0)
             THEN fail("TRANSFER_FAILED")
        ELSE IF amountOut1 > 0 /\ TokenTransferFails(tb1, token1[p], p, amountOut1)
             THEN fail("TRANSFER_FAILED")
        ELSE IF amountIn0 = 0 /\ amountIn1 = 0 THEN fail("InsufficientInput")
        ELSE LET e == FeeCheck(balance0, balance1, amountIn0, amountIn1, r0, r1)
             IN  IF e # OK THEN fail(e)
                 ELSE [err |-> OK, tb |-> tb2, r0 |-> UpdateReserve(balance0),
                       r1 |-> UpdateReserve(balance1), in0 |-> amountIn0, in1 |-> amountIn1]

\* swap as a function of the state: the error and the state it leaves
SwapResult(tb, p, r0, r1, amountOut0, amountOut1, to) ==
    LET tb1 == IF amountOut0 > 0 THEN MoveTokens(tb, token0[p], p, to, amountOut0) ELSE tb
        tb2 == IF amountOut1 > 0 THEN MoveTokens(tb1, token1[p], p, to, amountOut1) ELSE tb1
        balance0 == TokenBalanceOf(tb2, token0[p], p)
        balance1 == TokenBalanceOf(tb2, token1[p], p)
        amountIn0 == ImpliedIn(balance0, r0, amountOut0)
        amountIn1 == ImpliedIn(balance1, r1, amountOut1)
        fail(e) == [err |-> e, tb |-> tb, r0 |-> r0, r1 |-> r1, in0 |-> 0, in1 |-> 0]
    IN  IF amountOut0 = 0 /\ amountOut1 = 0 THEN fail("InsufficientOutput")
        ELSE IF amountOut0 >= r0 \/ amountOut1 >= r1 THEN fail("InsufficientLiquidity")
        ELSE IF amountOut0 > 0 /\ TokenTransferFails(tb, token0[p], p, amountOut0)
             THEN fail("TRANSFER_FAILED")
        ELSE IF amountOut1 > 0 /\ TokenTransferFails(tb1, token1[p], p, amountOut1)
             THEN fail("TRANSFER_FAILED")
        ELSE IF amountIn0 = 0 /\ amountIn1 = 0 THEN fail("InsufficientInput")
        ELSE LET e == FeeCheck(balance0, balance1, amountIn0, amountIn1, r0, r1)
             IN  IF e # OK THEN fail(e)
                 ELSE [err |-> OK, tb |-> tb2, r0 |-> UpdateReserve(balance0),
                       r1 |-> UpdateReserve(balance1), in0 |-> amountIn0, in1 |-> amountIn1]

Swap(p, sender, amountOut0, amountOut1, to) ==
    LET args == <<p, amountOut0, amountOut1, to>>
        s == SwapResult(tokenBalance, p, reserve0[p], reserve1[p], amountOut0, amountOut1, to)
    IN  IF s.err # OK THEN Revert("swap", sender, args, s.err)
        ELSE /\ tokenBalance' = s.tb
             /\ reserve0' = [reserve0 EXCEPT ![p] = s.r0]
             /\ reserve1' = [reserve1 EXCEPT ![p] = s.r1]
             /\ last' = Call("swap", sender, args, OK, <<s.in0, s.in1>>)
             /\ UNCHANGED <<factoryVars, token0, token1, totalSupply, balanceOf, allowance>>

\* ------------------------------------------------------------- Router
\* faulty variant: the quote forgets the fee
getAmountOutNoFee(amountIn, reserveIn, reserveOut) ==
    IF amountIn = 0 THEN [err |-> "INSUFFICIENT_INPUT", amountOut |-> 0]
    ELSE IF reserveIn = 0 \/ reserveOut = 0
         THEN [err |-> "INSUFFICIENT_LIQUIDITY", amountOut |-> 0]
    ELSE IF MulOverflows(amountIn, 1000) \/ MulOverflows(amountIn * 1000, reserveOut)
              \/ MulOverflows(reserveIn, 1000)
         THEN [err |-> "Panic", amountOut |-> 0]
    ELSE IF AddOverflows(reserveIn * 1000, amountIn * 1000)
         THEN [err |-> "Panic", amountOut |-> 0]
    ELSE [err |-> OK,
          amountOut |-> (amountIn * 1000 * reserveOut)
                            \div (reserveIn * 1000 + amountIn * 1000)]

\* faulty variant: the reserves are tested before the input
getAmountOutReservesFirst(amountIn, reserveIn, reserveOut) ==
    IF reserveIn = 0 \/ reserveOut = 0
    THEN [err |-> "INSUFFICIENT_LIQUIDITY", amountOut |-> 0]
    ELSE IF amountIn = 0 THEN [err |-> "INSUFFICIENT_INPUT", amountOut |-> 0]
    ELSE IF MulOverflows(amountIn, 997) THEN [err |-> "Panic", amountOut |-> 0]
    ELSE LET amountInWithFee == amountIn * 997 IN
         IF MulOverflows(amountInWithFee, reserveOut) \/ MulOverflows(reserveIn, 1000)
         THEN [err |-> "Panic", amountOut |-> 0]
         ELSE IF AddOverflows(reserveIn * 1000, amountInWithFee)
              THEN [err |-> "Panic", amountOut |-> 0]
         ELSE [err |-> OK,
               amountOut |-> (amountInWithFee * reserveOut)
                                 \div (reserveIn * 1000 + amountInWithFee)]

\* faulty variant: the quotient of the quote is rounded up
getAmountOutRoundsUp(amountIn, reserveIn, reserveOut) ==
    IF amountIn = 0 THEN [err |-> "INSUFFICIENT_INPUT", amountOut |-> 0]
    ELSE IF reserveIn = 0 \/ reserveOut = 0
         THEN [err |-> "INSUFFICIENT_LIQUIDITY", amountOut |-> 0]
    ELSE IF MulOverflows(amountIn, 997) THEN [err |-> "Panic", amountOut |-> 0]
    ELSE LET amountInWithFee == amountIn * 997 IN
         IF MulOverflows(amountInWithFee, reserveOut) \/ MulOverflows(reserveIn, 1000)
         THEN [err |-> "Panic", amountOut |-> 0]
         ELSE IF AddOverflows(reserveIn * 1000, amountInWithFee)
              THEN [err |-> "Panic", amountOut |-> 0]
         ELSE [err |-> OK,
               amountOut |-> (amountInWithFee * reserveOut + reserveIn * 1000
                                  + amountInWithFee - 1)
                                 \div (reserveIn * 1000 + amountInWithFee)]

\* getAmountOut: the quoted output, or the error
getAmountOut(amountIn, reserveIn, reserveOut) ==
    IF amountIn = 0 THEN [err |-> "INSUFFICIENT_INPUT", amountOut |-> 0]
    ELSE IF reserveIn = 0 \/ reserveOut = 0
         THEN [err |-> "INSUFFICIENT_LIQUIDITY", amountOut |-> 0]
    ELSE IF MulOverflows(amountIn, 997) THEN [err |-> "Panic", amountOut |-> 0]
    ELSE LET amountInWithFee == amountIn * 997 IN
         IF MulOverflows(amountInWithFee, reserveOut) \/ MulOverflows(reserveIn, 1000)
         THEN [err |-> "Panic", amountOut |-> 0]
         ELSE IF AddOverflows(reserveIn * 1000, amountInWithFee)
              THEN [err |-> "Panic", amountOut |-> 0]
         ELSE [err |-> OK,
               amountOut |-> (amountInWithFee * reserveOut)
                                 \div (reserveIn * 1000 + amountInWithFee)]

\* faulty variant: every hop reads reserve0 as the input reserve, whatever the
\* direction of the hop
RECURSIVE amountsFromUnoriented(_, _, _, _, _, _)
amountsFromUnoriented(gp, r0, r1, amounts, path, i) ==
    IF i >= Len(path) THEN [err |-> OK, amounts |-> amounts]
    ELSE LET pair == gp[<<path[i], path[i + 1]>>]
             q == getAmountOut(amounts[i], r0[pair], r1[pair])
         IN  IF pair = ZERO THEN [err |-> "PairNotFound", amounts |-> amounts]
             ELSE IF q.err # OK THEN [err |-> q.err, amounts |-> amounts]
             ELSE amountsFromUnoriented(gp, r0, r1, Append(amounts, q.amountOut),
                                        path, i + 1)

\* faulty variant: a hop without a pair is quoted as a pair without reserves
RECURSIVE amountsFromMissingAsEmpty(_, _, _, _, _, _)
amountsFromMissingAsEmpty(gp, r0, r1, amounts, path, i) ==
    IF i >= Len(path) THEN [err |-> OK, amounts |-> amounts]
    ELSE LET pair == gp[<<path[i], path[i + 1]>>]
             reserveIn == IF path[i] < path[i + 1] THEN r0[pair] ELSE r1[pair]
             reserveOut == IF path[i] < path[i + 1] THEN r1[pair] ELSE r0[pair]
             q == getAmountOut(amounts[i], reserveIn, reserveOut)
         IN  IF pair = ZERO THEN [err |-> "INSUFFICIENT_LIQUIDITY", amounts |-> amounts]
             ELSE IF q.err # OK THEN [err |-> q.err, amounts |-> amounts]
             ELSE amountsFromMissingAsEmpty(gp, r0, r1, Append(amounts, q.amountOut),
                                            path, i + 1)

\* the loop of getAmountsOut from hop i on; amounts holds amounts[0..i-1]
RECURSIVE amountsFrom(_, _, _, _, _, _)
amountsFrom(gp, r0, r1, amounts, path, i) ==
    IF i >= Len(path) THEN [err |-> OK, amounts |-> amounts]
    ELSE LET pair == gp[<<path[i], path[i + 1]>>]
             reserveIn == IF path[i] < path[i + 1] THEN r0[pair] ELSE r1[pair]
             reserveOut == IF path[i] < path[i + 1] THEN r1[pair] ELSE r0[pair]
             q == getAmountOut(amounts[i], reserveIn, reserveOut)
         IN  IF pair = ZERO THEN [err |-> "PairNotFound", amounts |-> amounts]
             ELSE IF q.err # OK THEN [err |-> q.err, amounts |-> amounts]
             ELSE amountsFrom(gp, r0, r1, Append(amounts, q.amountOut), path, i + 1)

\* getAmountsOut on a registry gp and reserves r0, r1 (amounts is 1-based:
\* amounts[k] here is the code's amounts[k-1])
getAmountsOut(gp, r0, r1, amountIn, path) ==
    IF Len(path) < 2 THEN [err |-> "PATH_SHORT", amounts |-> <<>>]
    ELSE amountsFrom(gp, r0, r1, <<amountIn>>, path, 1)

\* faulty variant: the last hop pays the router, not the recipient of the call
RECURSIVE swapFromKeepsOutput(_, _, _, _, _)
swapFromKeepsOutput(st, amounts, path, i, _to) ==
    IF i >= Len(path) \/ st.err # OK THEN st
    ELSE LET input == path[i]
             output == path[i + 1]
             pair == getPair[<<input, output>>]
             t0 == IF input < output THEN input ELSE output
             amountOut == amounts[i + 1]
             amount0Out == IF input = t0 THEN 0 ELSE amountOut
             amount1Out == IF input = t0 THEN amountOut ELSE 0
             to == IF i < Len(path) - 1 THEN getPair[<<output, path[i + 2]>>] ELSE ROUTER
         IN  IF pair = ZERO THEN [st EXCEPT !.err = "PairNotFound", !.hop = i]
             ELSE LET s == SwapResult(st.tb, pair, st.r0[pair], st.r1[pair],
                                      amount0Out, amount1Out, to)
                  IN  swapFromKeepsOutput([err |-> s.err, tb |-> s.tb,
                                r0 |-> [st.r0 EXCEPT ![pair] = s.r0],
                                r1 |-> [st.r1 EXCEPT ![pair] = s.r1],
                                hop |-> IF s.err = OK THEN 0 ELSE i,
                                calls |-> IF s.err = OK
                                          THEN Append(st.calls, <<"Hop", pair, amount0Out,
                                                                  amount1Out, to>>)
                                          ELSE st.calls],
                               amounts, path, i + 1, _to)

\* faulty variant: a hop asks for the amount that was paid in, amounts[i]
RECURSIVE swapFromInputAmount(_, _, _, _, _)
swapFromInputAmount(st, amounts, path, i, _to) ==
    IF i >= Len(path) \/ st.err # OK THEN st
    ELSE LET input == path[i]
             output == path[i + 1]
             pair == getPair[<<input, output>>]
             t0 == IF input < output THEN input ELSE output
             amountOut == amounts[i]
             amount0Out == IF input = t0 THEN 0 ELSE amountOut
             amount1Out == IF input = t0 THEN amountOut ELSE 0
             to == IF i < Len(path) - 1 THEN getPair[<<output, path[i + 2]>>] ELSE _to
         IN  IF pair = ZERO THEN [st EXCEPT !.err = "PairNotFound", !.hop = i]
             ELSE LET s == SwapResult(st.tb, pair, st.r0[pair], st.r1[pair],
                                      amount0Out, amount1Out, to)
                  IN  swapFromInputAmount([err |-> s.err, tb |-> s.tb,
                                r0 |-> [st.r0 EXCEPT ![pair] = s.r0],
                                r1 |-> [st.r1 EXCEPT ![pair] = s.r1],
                                hop |-> IF s.err = OK THEN 0 ELSE i,
                                calls |-> IF s.err = OK
                                          THEN Append(st.calls, <<"Hop", pair, amount0Out,
                                                                  amount1Out, to>>)
                                          ELSE st.calls],
                               amounts, path, i + 1, _to)

\* the loop of _swap from hop i on; st is the state the hops before left,
\* st.hop the hop that failed (0: none), st.calls the swaps the hops before
\* made, each as <<"Hop", pair, amount0Out, amount1Out, to>>
RECURSIVE swapFrom(_, _, _, _, _)
swapFrom(st, amounts, path, i, _to) ==
    IF i >= Len(path) \/ st.err # OK THEN st
    ELSE LET input == path[i]
             output == path[i + 1]
             pair == getPair[<<input, output>>]
             t0 == IF input < output THEN input ELSE output
             amountOut == amounts[i + 1]
             amount0Out == IF input = t0 THEN 0 ELSE amountOut
             amount1Out == IF input = t0 THEN amountOut ELSE 0
             to == IF i < Len(path) - 1 THEN getPair[<<output, path[i + 2]>>] ELSE _to
         IN  IF pair = ZERO THEN [st EXCEPT !.err = "PairNotFound", !.hop = i]
             ELSE LET s == SwapResult(st.tb, pair, st.r0[pair], st.r1[pair],
                                      amount0Out, amount1Out, to)
                  IN  swapFrom([err |-> s.err, tb |-> s.tb,
                                r0 |-> [st.r0 EXCEPT ![pair] = s.r0],
                                r1 |-> [st.r1 EXCEPT ![pair] = s.r1],
                                hop |-> IF s.err = OK THEN 0 ELSE i,
                                calls |-> IF s.err = OK
                                          THEN Append(st.calls, <<"Hop", pair, amount0Out,
                                                                  amount1Out, to>>)
                                          ELSE st.calls],
                               amounts, path, i + 1, _to)

\* _swap
SwapHops(tb, amounts, path, _to) ==
    swapFrom([err |-> OK, tb |-> tb, r0 |-> reserve0, r1 |-> reserve1, hop |-> 0,
              calls |-> <<>>],
             amounts, path, 1, _to)

\* faulty variant: a failed hop does not undo the funding transfer and the hops
\* before it
SwapExactNoRollback(sender, amountIn, amountOutMin, path, to) ==
    LET args == <<amountIn, amountOutMin, path, to>>
        op == "swapExactTokensForTokens"
        q == getAmountsOut(getPair, reserve0, reserve1, amountIn, path)
        funded == MoveTokens(tokenBalance, path[1], sender,
                             getPair[<<path[1], path[2]>>], amountIn)
        h == SwapHops(funded, q.amounts, path, to)
    IN  IF q.err # OK THEN RevertWith(op, sender, args, q.err, <<0>>)
        ELSE IF q.amounts[Len(q.amounts)] < amountOutMin
             THEN RevertWith(op, sender, args, "SLIPPAGE", <<0>>)
        ELSE IF TokenTransferFails(tokenBalance, path[1], sender, amountIn)
             THEN RevertWith(op, sender, args, "TokenRevert", <<0>>)
        ELSE /\ tokenBalance' = h.tb
             /\ reserve0' = h.r0
             /\ reserve1' = h.r1
             /\ last' = Call(op, sender, args, h.err,
                             IF h.err = OK THEN q.amounts ELSE <<h.hop>>)
             /\ UNCHANGED <<factoryVars, token0, token1, totalSupply, balanceOf, allowance>>

\* faulty variant: the quoted output is not compared with amountOutMin
SwapExactNoSlippageCheck(sender, amountIn, amountOutMin, path, to) ==
    LET args == <<amountIn, amountOutMin, path, to>>
        op == "swapExactTokensForTokens"
        q == getAmountsOut(getPair, reserve0, reserve1, amountIn, path)
        funded == MoveTokens(tokenBalance, path[1], sender,
                             getPair[<<path[1], path[2]>>], amountIn)
        RevertAt(err, hop, steps) ==
            /\ last' = [Call(op, sender, args, err, <<hop>>) EXCEPT !.steps = steps]
            /\ UNCHANGED <<factoryVars, pairVars, tokenBalance>>
        Hops(tb) ==
            LET h == SwapHops(tb, q.amounts, path, to)
            IN  IF h.err # OK
                THEN RevertAt(h.err, h.hop, <<<<"Quoted">>, <<"Funded">>>> \o h.calls)
                ELSE /\ tokenBalance' = h.tb
                     /\ reserve0' = h.r0
                     /\ reserve1' = h.r1
                     /\ last' = [Call(op, sender, args, OK, q.amounts)
                                   EXCEPT !.steps = <<<<"Quoted">>, <<"Funded">>>> \o h.calls
                                                        \o <<<<"Complete">>>>]
                     /\ UNCHANGED <<factoryVars, token0, token1, totalSupply, balanceOf,
                                    allowance>>
    IN  IF q.err # OK THEN RevertAt(q.err, 0, <<>>)
        ELSE IF TokenTransferFails(tokenBalance, path[1], sender, amountIn)
             THEN \/ RevertAt("TokenRevert", 0, <<<<"Quoted">>>>)
                  \/ Hops(tokenBalance)
        ELSE Hops(funded)

\* swapExactTokensForTokens.  The sender has approved the router for the
\* input token.  When the sender's balance is too small the token's
\* transferFrom either reverts, and the call with it, or returns false: the
\* router does not read the returned value and goes on to the hops with
\* nothing pulled.  A reverted call records the hop that failed (0: none was
\* reached).  The record of the call lists in steps what the call went
\* through, in the order it did: <<"Quoted">> after getAmountsOut, <<"Funded">>
\* after the transferFrom, <<"Hop", pair, amount0Out, amount1Out, to>> for each
\* swap _swap made, <<"Complete">> when _swap returned.
SwapExactTokensForTokens(sender, amountIn, amountOutMin, path, to) ==
    LET args == <<amountIn, amountOutMin, path, to>>
        op == "swapExactTokensForTokens"
        q == getAmountsOut(getPair, reserve0, reserve1, amountIn, path)
        funded == MoveTokens(tokenBalance, path[1], sender,
                             getPair[<<path[1], path[2]>>], amountIn)
        RevertAt(err, hop, steps) ==
            /\ last' = [Call(op, sender, args, err, <<hop>>) EXCEPT !.steps = steps]
            /\ UNCHANGED <<factoryVars, pairVars, tokenBalance>>
        Hops(tb) ==
            LET h == SwapHops(tb, q.amounts, path, to)
            IN  IF h.err # OK
                THEN RevertAt(h.err, h.hop, <<<<"Quoted">>, <<"Funded">>>> \o h.calls)
                ELSE /\ tokenBalance' = h.tb
                     /\ reserve0' = h.r0
                     /\ reserve1' = h.r1
                     /\ last' = [Call(op, sender, args, OK, q.amounts)
                                   EXCEPT !.steps = <<<<"Quoted">>, <<"Funded">>>> \o h.calls
                                                        \o <<<<"Complete">>>>]
                     /\ UNCHANGED <<factoryVars, token0, token1, totalSupply, balanceOf,
                                    allowance>>
    IN  IF q.err # OK THEN RevertAt(q.err, 0, <<>>)
        ELSE IF q.amounts[Len(q.amounts)] < amountOutMin
             THEN RevertAt("SLIPPAGE", 0, <<<<"Quoted">>>>)
        ELSE IF TokenTransferFails(tokenBalance, path[1], sender, amountIn)
             THEN \/ RevertAt("TokenRevert", 0, <<<<"Quoted">>>>)
                  \/ Hops(tokenBalance)
        ELSE Hops(funded)

\* ----------------------------------------------------- specifications
\* the registry after construction
NoPairs == [k \in (0..NumTokens) \X (0..NumTokens) |-> ZERO]
NoCall == Call("none", ZERO, <<>>, OK, <<>>)

InitLedgers ==
    /\ reserve0 = [p \in PairAddrs |-> 0]
    /\ reserve1 = [p \in PairAddrs |-> 0]
    /\ totalSupply = [p \in PairAddrs |-> 0]
    /\ balanceOf = [p \in PairAddrs |-> [h \in Holders |-> 0]]
    /\ allowance = [p \in PairAddrs |-> [k \in Users \X Users |-> 0]]
    /\ tokenBalance = [t \in Tokens |-> [h \in Holders |->
                           IF h # 11 THEN 0
                           ELSE IF t = 1 THEN InitialBalance ELSE SmallBalance]]

\* Factory alone, from its construction
InitFactory ==
    /\ getPair = NoPairs
    /\ allPairs = <<>>
    /\ token0 = [p \in PairAddrs |-> ZERO]
    /\ token1 = [p \in PairAddrs |-> ZERO]
    /\ InitLedgers
    /\ last = NoCall

NextFactory ==
    \E tokenA \in 0..NumTokens, tokenB \in 0..NumTokens : CreatePair(11, tokenA, tokenB)

SpecFactory == InitFactory /\ [][NextFactory]_vars

\* One pair: the state right after createPair(1, 2) on a new factory
Init ==
    /\ getPair = [NoPairs EXCEPT ![<<1, 2>>] = PairAddr(1), ![<<2, 1>>] = PairAddr(1)]
    /\ allPairs = <<PairAddr(1)>>
    /\ token0 = [p \in PairAddrs |-> IF p = PairAddr(1) THEN 1 ELSE ZERO]
    /\ token1 = [p \in PairAddrs |-> IF p = PairAddr(1) THEN 2 ELSE ZERO]
    /\ InitLedgers
    /\ last = Call("createPair", 11, <<1, 2>>, OK, <<PairAddr(1)>>)

Created == {allPairs[i] : i \in 1..Len(allPairs)}
Amounts == 1..MaxTransfer
\* the outputs a direct swap asks for: none, one side, or both sides
SwapRequests == {<<0, 0>>, <<1, 1>>} \cup {<<a, 0>> : a \in 1..MaxOut}
                    \cup {<<0, a>> : a \in 1..MaxOut}
\* the router calls made: <<amountIn, amountOutMin, path>>
RouterCalls == {<<a, 0, <<1, 2>>>> : a \in 1..MaxAmountIn}
                   \cup {<<a, 0, <<2, 1>>>> : a \in 1..MaxAmountIn}
                   \cup {<<2, 2, <<1, 2>>>>, <<2, 0, <<1, 2, 1>>>>,
                         <<1, 0, <<1, 3>>>>, <<1, 0, <<1>>>>}

\* A reverted call leaves the state it started from, so the calls that can
\* follow it are the calls that can follow that state: they are explored
\* from there, and a state that records a reverted call is not extended.
Running == last.err = OK

Deposit ==
    /\ Running
    /\ \E p \in Created : \E t \in {token0[p], token1[p]}, v \in Amounts :
           TokenTransfer(t, 11, p, v)
\* deposits that would take the share supply above MaxShares are left out
UserMint ==
    /\ Running
    /\ \E p \in Created, to \in Users : Mint(p, 11, to) /\ totalSupply'[p] <= MaxShares
UserBurn == Running /\ \E p \in Created : Burn(p, 11, 11)
UserSwap ==
    /\ Running
    /\ \E p \in Created, a \in SwapRequests : Swap(p, 11, a[1], a[2], 11)
ReturnShares == Running /\ \E p \in Created, v \in Amounts : Transfer(p, 11, p, v)
RouterSwap ==
    /\ Running
    /\ \E c \in RouterCalls : SwapExactTokensForTokens(11, c[1], c[2], c[3], 11)

Next == Deposit \/ UserMint \/ UserBurn \/ UserSwap \/ ReturnShares \/ RouterSwap

Spec == Init /\ [][Next]_vars

\* The liquidity shares of one pair among two users: deposits, mint, burn,
\* approve, transfer and transferFrom, from the state right after createPair
ShareAmounts == 1..MaxShareTransfer
ShareDeposit ==
    /\ Running
    /\ \E p \in Created : \E t \in {token0[p], token1[p]} :
           TokenTransfer(t, 11, p, MaxShareTransfer)
ShareMint ==
    /\ Running
    /\ \E p \in Created, to \in Users : Mint(p, 11, to) /\ totalSupply'[p] <= MaxShares
ShareBurn == Running /\ \E p \in Created : Burn(p, 12, 11)
ShareApprove ==
    /\ Running
    /\ \E p \in Created, v \in {1, MaxUint256} : Approve(p, 11, 12, v)
ShareTransfer ==
    /\ Running
    /\ \E p \in Created, u \in Users : \E to \in (Users \cup {p}), v \in ShareAmounts :
           Transfer(p, u, to, v)
ShareTransferFrom ==
    /\ Running
    /\ \E p \in Created : \E to \in {12, p}, v \in ShareAmounts :
           TransferFrom(p, 12, 11, to, v)

NextShares ==
    ShareDeposit \/ ShareMint \/ ShareBurn \/ ShareApprove \/ ShareTransfer
        \/ ShareTransferFrom

SpecShares == Init /\ [][NextShares]_vars

\* the pair's balances in custody
Custody0(p) == tokenBalance[token0[p]][p]
Custody1(p) == tokenBalance[token1[p]][p]

\* The quote against the fee check: a pair of tokens 1 and 2 that holds
\* reserves (reserveIn, reserveOut), minted by one first deposit, and into
\* which amountIn of the input token has just been paid; the swap then asks
\* for the router's quote, or for one more.
QuoteInputs == (1..(3 * MaxAmountIn)) \cup
                   {10, 100, 1000, 2000, 2150, 3000, 100000, 300000, 2000000}

InitQuote ==
    \E reserveIn \in 1..MaxUint112, reserveOut \in 1..MaxUint112,
       amountIn \in QuoteInputs, zeroForOne \in BOOLEAN :
        LET p == PairAddr(1)
            r0 == IF zeroForOne THEN reserveIn ELSE reserveOut
            r1 == IF zeroForOne THEN reserveOut ELSE reserveIn
        IN  /\ getPair = [NoPairs EXCEPT ![<<1, 2>>] = p, ![<<2, 1>>] = p]
            /\ allPairs = <<p>>
            /\ token0 = [q \in PairAddrs |-> IF q = p THEN 1 ELSE ZERO]
            /\ token1 = [q \in PairAddrs |-> IF q = p THEN 2 ELSE ZERO]
            /\ reserve0 = [q \in PairAddrs |-> IF q = p THEN r0 ELSE 0]
            /\ reserve1 = [q \in PairAddrs |-> IF q = p THEN r1 ELSE 0]
            /\ totalSupply = [q \in PairAddrs |-> IF q = p THEN sqrt(r0 * r1) ELSE 0]
            /\ balanceOf = [q \in PairAddrs |-> [h \in Holders |->
                               IF q = p /\ h = 11 THEN sqrt(r0 * r1) ELSE 0]]
            /\ allowance = [q \in PairAddrs |-> [k \in Users \X Users |-> 0]]
            /\ tokenBalance = [t \in Tokens |-> [h \in Holders |->
                   IF h # p THEN 0
                   ELSE IF t = 1 THEN r0 + (IF zeroForOne THEN amountIn ELSE 0)
                   ELSE IF t = 2 THEN r1 + (IF zeroForOne THEN 0 ELSE amountIn)
                   ELSE 0]]
            /\ last = Call("token.transfer", 11,
                           <<IF zeroForOne THEN 1 ELSE 2, p, amountIn>>, OK, <<>>)

\* what was paid into pair p since its reserves were recorded
PaidIn0(p) == Custody0(p) - reserve0[p]
PaidIn1(p) == Custody1(p) - reserve1[p]
\* the router's quote for what was paid into p
QuoteFor(p) == IF PaidIn0(p) > 0 THEN getAmountOut(PaidIn0(p), reserve0[p], reserve1[p])
               ELSE getAmountOut(PaidIn1(p), reserve1[p], reserve0[p])

QuotedSwap ==
    /\ Running
    /\ \E p \in Created, more \in {0, 1} :
        /\ QuoteFor(p).err = OK
        /\ IF PaidIn0(p) > 0
           THEN Swap(p, 11, 0, QuoteFor(p).amountOut + more, 11)
           ELSE Swap(p, 11, QuoteFor(p).amountOut + more, 0, 11)

SpecQuote == InitQuote /\ [][QuotedSwap]_vars

\* The first deposit into a new pair: user 11 holds amount0 of token 1 and
\* amount1 of token 2, sends all of a token to the pair, and mint is called
InitFirstDeposit ==
    \E amount0 \in 1..MaxFirstDeposit, amount1 \in 1..MaxFirstDeposit :
        LET p == PairAddr(1)
        IN  /\ getPair = [NoPairs EXCEPT ![<<1, 2>>] = p, ![<<2, 1>>] = p]
            /\ allPairs = <<p>>
            /\ token0 = [q \in PairAddrs |-> IF q = p THEN 1 ELSE ZERO]
            /\ token1 = [q \in PairAddrs |-> IF q = p THEN 2 ELSE ZERO]
            /\ reserve0 = [q \in PairAddrs |-> 0]
            /\ reserve1 = [q \in PairAddrs |-> 0]
            /\ totalSupply = [q \in PairAddrs |-> 0]
            /\ balanceOf = [q \in PairAddrs |-> [h \in Holders |-> 0]]
            /\ allowance = [q \in PairAddrs |-> [k \in Users \X Users |-> 0]]
            /\ tokenBalance = [t \in Tokens |-> [h \in Holders |->
                   IF h # 11 THEN 0
                   ELSE IF t = 1 THEN amount0
                   ELSE IF t = 2 THEN amount1
                   ELSE 0]]
            /\ last = Call("createPair", 11, <<1, 2>>, OK, <<p>>)

DepositAll ==
    /\ Running
    /\ \E p \in Created : \E t \in {token0[p], token1[p]} :
           /\ TokenBalanceOf(tokenBalance, t, 11) > 0
           /\ TokenTransfer(t, 11, p, TokenBalanceOf(tokenBalance, t, 11))
FirstMint == Running /\ \E p \in Created, to \in Users : Mint(p, 11, to)

NextFirstDeposit == DepositAll \/ FirstMint

SpecFirstDeposit == InitFirstDeposit /\ [][NextFirstDeposit]_vars

\* Two actors at one pair: user 11 sends tokens to the pair, half or all of
\* what it holds, and either user calls mint naming itself as the recipient
RaceDeposit ==
    /\ Running
    /\ \E p \in Created : \E t \in {token0[p], token1[p]} :
           \E amount \in {(TokenBalanceOf(tokenBalance, t, 11) + 1) \div 2,
                           TokenBalanceOf(tokenBalance, t, 11)} :
               /\ amount > 0
               /\ TokenTransfer(t, 11, p, amount)
RaceMint == Running /\ \E p \in Created, u \in Users : Mint(p, u, u)

NextRace == RaceDeposit \/ RaceMint

SpecRace == InitFirstDeposit /\ [][NextRace]_vars

\* Router.getAmountOut called on its own, in any state a first deposit
\* leaves: the call reads no state and changes none but the record of the call
GetAmountOutAmounts == {0, 1, MaxAmountIn, 100, 1000, 2150, 2000000, MaxUint256}
GetAmountOutReserves == {0, 1, 2, MaxUint112, 1000, 4000, 2000000, 3000000}

GetAmountOutCall ==
    \E amountIn \in GetAmountOutAmounts,
       reserveIn \in GetAmountOutReserves, reserveOut \in GetAmountOutReserves :
        LET r == getAmountOut(amountIn, reserveIn, reserveOut)
        IN  /\ last' = Call("getAmountOut", 11, <<amountIn, reserveIn, reserveOut>>,
                            r.err, IF r.err = OK THEN <<r.amountOut>> ELSE <<>>)
            /\ UNCHANGED <<factoryVars, pairVars, tokenBalance>>

NextGetAmountOut == GetAmountOutCall \/ DepositAll \/ FirstMint

SpecGetAmountOut == Init /\ [][NextGetAmountOut]_vars

\* Routing over two seeded pairs, (1, 2) and (2, 3), with no pair for (1, 3),
\* as the deployment seeds its pairs: every pair starts with its custody equal
\* to its reserves and its shares with user 11, who holds MaxAmountIn of tokens
\* 1 and 3 to trade; a pair seeded <<0, 0>> was created and never minted
RouteSeeds == {<<0, 0>>, <<1, 3>>, <<3, 1>>, <<2, MaxUint112>>}
RoutePaths == {<<>>, <<1>>, <<1, 2>>, <<2, 1>>, <<2, 3>>, <<1, 3>>, <<1, 2, 3>>,
               <<3, 2, 1>>, <<1, 2, 1>>, <<1, 2, 3, 1>>}
RouteCalls ==
    {<<a, 0, path, 12>> : a \in 1..MaxAmountIn, path \in RoutePaths}
        \cup {<<MaxAmountIn, MaxAmountIn, path, ROUTER>> : path \in {<<1, 2>>, <<1, 2, 3>>}}
        \cup {<<1, 0, <<1, 2>>, ROUTER>>}

InitRoute ==
    \E seed1 \in RouteSeeds, seed2 \in RouteSeeds :
        LET p1 == PairAddr(1)
            p2 == PairAddr(2)
            seed(q) == IF q = p1 THEN seed1 ELSE IF q = p2 THEN seed2 ELSE <<0, 0>>
        IN  /\ getPair = [NoPairs EXCEPT ![<<1, 2>>] = p1, ![<<2, 1>>] = p1,
                                         ![<<2, 3>>] = p2, ![<<3, 2>>] = p2]
            /\ allPairs = <<p1, p2>>
            /\ token0 = [q \in PairAddrs |-> IF q = p1 THEN 1 ELSE IF q = p2 THEN 2 ELSE ZERO]
            /\ token1 = [q \in PairAddrs |-> IF q = p1 THEN 2 ELSE IF q = p2 THEN 3 ELSE ZERO]
            /\ reserve0 = [q \in PairAddrs |-> seed(q)[1]]
            /\ reserve1 = [q \in PairAddrs |-> seed(q)[2]]
            /\ totalSupply = [q \in PairAddrs |-> sqrt(seed(q)[1] * seed(q)[2])]
            /\ balanceOf = [q \in PairAddrs |-> [h \in Holders |->
                               IF h = 11 THEN sqrt(seed(q)[1] * seed(q)[2]) ELSE 0]]
            /\ allowance = [q \in PairAddrs |-> [k \in Users \X Users |-> 0]]
            /\ tokenBalance = [t \in Tokens |-> [h \in Holders |->
                   IF h = 11 THEN (IF t = 2 THEN 0 ELSE MaxAmountIn)
                   ELSE IF h = p1 /\ t = 1 THEN seed1[1]
                   ELSE IF h = p1 /\ t = 2 THEN seed1[2]
                   ELSE IF h = p2 /\ t = 2 THEN seed2[1]
                   ELSE IF h = p2 /\ t = 3 THEN seed2[2]
                   ELSE 0]]
            /\ last = NoCall

\* getAmountsOut called on its own: it changes nothing but the record of the
\* call, which holds the returned array
RouteQuote ==
    /\ Running
    /\ \E amountIn \in 1..MaxAmountIn, path \in RoutePaths :
           LET q == getAmountsOut(getPair, reserve0, reserve1, amountIn, path)
           IN  /\ last' = Call("getAmountsOut", 11, <<amountIn, path>>, q.err,
                               IF q.err = OK THEN q.amounts ELSE <<>>)
               /\ UNCHANGED <<factoryVars, pairVars, tokenBalance>>

RouteSwap ==
    /\ Running
    /\ \E c \in RouteCalls : SwapExactTokensForTokens(11, c[1], c[2], c[3], c[4])

NextRoute == RouteQuote \/ RouteSwap

SpecRoute == InitRoute /\ [][NextRoute]_vars

\* Round trips through one pair: the pair of tokens 1 and 2 starts seeded,
\* possibly with tokens sent to it since, and user 11, who holds one unit more
\* of each token than a reserve field can record, swaps along paths that go
\* out through the pair and back, or along the single hop
RoundTripSeeds == {<<1, 3>>, <<3, 1>>, <<4, 4>>, <<2, MaxUint112>>, <<MaxUint112, MaxUint112>>}
RoundTripSent == {<<0, 0>>, <<1, 0>>, <<0, 1>>}
RoundTripPaths == {<<1, 2, 1>>, <<2, 1, 2>>, <<1, 2, 1, 2>>, <<1, 1, 1>>, <<1, 2>>}
RoundTripAmounts == {1, 2, MaxUint112 + 1}

InitRoundTrip ==
    \E seed \in RoundTripSeeds, sent \in RoundTripSent :
        LET p == PairAddr(1)
        IN  /\ getPair = [NoPairs EXCEPT ![<<1, 2>>] = p, ![<<2, 1>>] = p]
            /\ allPairs = <<p>>
            /\ token0 = [q \in PairAddrs |-> IF q = p THEN 1 ELSE ZERO]
            /\ token1 = [q \in PairAddrs |-> IF q = p THEN 2 ELSE ZERO]
            /\ reserve0 = [q \in PairAddrs |-> IF q = p THEN seed[1] ELSE 0]
            /\ reserve1 = [q \in PairAddrs |-> IF q = p THEN seed[2] ELSE 0]
            /\ totalSupply = [q \in PairAddrs |-> IF q = p THEN sqrt(seed[1] * seed[2]) ELSE 0]
            /\ balanceOf = [q \in PairAddrs |-> [h \in Holders |->
                               IF q = p /\ h = 11 THEN sqrt(seed[1] * seed[2]) ELSE 0]]
            /\ allowance = [q \in PairAddrs |-> [k \in Users \X Users |-> 0]]
            /\ tokenBalance = [t \in Tokens |-> [h \in Holders |->
                   IF h = 11 /\ t \in {1, 2} THEN MaxUint112 + 1
                   ELSE IF h = p /\ t = 1 THEN seed[1] + sent[1]
                   ELSE IF h = p /\ t = 2 THEN seed[2] + sent[2]
                   ELSE 0]]
            /\ last = NoCall

RoundTripSwap ==
    /\ Running
    /\ \E amountIn \in RoundTripAmounts, path \in RoundTripPaths :
           SwapExactTokensForTokens(11, amountIn, 0, path, 12)

NextRoundTrip == RoundTripSwap

SpecRoundTrip == InitRoundTrip /\ [][NextRoundTrip]_vars

\* Two seeded pairs that share token 2, under the direct calls of their pair
\* contracts.  Each pair starts as its seeding left it and, on top of that,
\* with tokens sent to it (deposits, <<of token0, of token1>>) and with some of
\* user 11's shares sent back to it, so that mint, burn and swap have something
\* to do.
PairSeeds == {<<1, 3>>, <<2, MaxUint112>>}
PairDeposits == {<<0, 0>>, <<1, 0>>, <<0, 1>>, <<2, 2>>}
PairSharesBack == {0, 1}

InitPairs ==
    \E seed1 \in PairSeeds, seed2 \in PairSeeds, sent1 \in PairDeposits,
       sent2 \in PairDeposits, back1 \in PairSharesBack, back2 \in PairSharesBack :
        LET p1 == PairAddr(1)
            p2 == PairAddr(2)
            seed(q) == IF q = p1 THEN seed1 ELSE IF q = p2 THEN seed2 ELSE <<0, 0>>
            back(q) == IF q = p1 THEN back1 ELSE IF q = p2 THEN back2 ELSE 0
            shares(q) == sqrt(seed(q)[1] * seed(q)[2])
        IN  /\ getPair = [NoPairs EXCEPT ![<<1, 2>>] = p1, ![<<2, 1>>] = p1,
                                         ![<<2, 3>>] = p2, ![<<3, 2>>] = p2]
            /\ allPairs = <<p1, p2>>
            /\ token0 = [q \in PairAddrs |-> IF q = p1 THEN 1 ELSE IF q = p2 THEN 2 ELSE ZERO]
            /\ token1 = [q \in PairAddrs |-> IF q = p1 THEN 2 ELSE IF q = p2 THEN 3 ELSE ZERO]
            /\ reserve0 = [q \in PairAddrs |-> seed(q)[1]]
            /\ reserve1 = [q \in PairAddrs |-> seed(q)[2]]
            /\ totalSupply = [q \in PairAddrs |-> shares(q)]
            /\ balanceOf = [q \in PairAddrs |-> [h \in Holders |->
                               IF h = 11 THEN shares(q) - back(q)
                               ELSE IF h = q THEN back(q) ELSE 0]]
            /\ allowance = [q \in PairAddrs |-> [k \in Users \X Users |-> 0]]
            /\ tokenBalance = [t \in Tokens |-> [h \in Holders |->
                   IF h = 11 THEN MaxAmountIn
                   ELSE IF h = p1 /\ t = 1 THEN seed1[1] + sent1[1]
                   ELSE IF h = p1 /\ t = 2 THEN seed1[2] + sent1[2]
                   ELSE IF h = p2 /\ t = 2 THEN seed2[1] + sent2[1]
                   ELSE IF h = p2 /\ t = 3 THEN seed2[2] + sent2[2]
                   ELSE 0]]
            /\ last = NoCall

NextPairs == UserMint \/ UserBurn \/ UserSwap

SpecPairs == InitPairs /\ [][NextPairs]_vars

\* The views
GetReserves(p, sender) ==
    /\ last' = Call("getReserves", sender, <<p>>, OK, <<reserve0[p], reserve1[p]>>)
    /\ UNCHANGED <<factoryVars, pairVars, tokenBalance>>
GetPair(sender, tokenA, tokenB) ==
    /\ last' = Call("getPair", sender, <<tokenA, tokenB>>, OK, <<getPair[<<tokenA, tokenB>>]>>)
    /\ UNCHANGED <<factoryVars, pairVars, tokenBalance>>

\* Every call of the factory, the pairs, the router and the tokens, made once
\* on the two pairs of InitPairs, or once after an approve; the second pair
\* starts from one seeding, with all its shares with user 11
InitFrame ==
    /\ InitPairs
    /\ reserve0[PairAddr(2)] = 1
    /\ balanceOf[PairAddr(2)][PairAddr(2)] = 0
FrameOpen == last.op \in {"none", "approve"}
FrameGetReserves == FrameOpen /\ \E p \in Created : GetReserves(p, 11)
FrameGetPair == FrameOpen /\ \E a \in Tokens, b \in Tokens : GetPair(11, a, b)
FrameGetAmountOut ==
    /\ FrameOpen
    /\ \E p \in Created, amountIn \in 1..MaxAmountIn :
           LET r == getAmountOut(amountIn, reserve0[p], reserve1[p])
           IN  /\ last' = Call("getAmountOut", 11, <<amountIn, reserve0[p], reserve1[p]>>,
                               r.err, IF r.err = OK THEN <<r.amountOut>> ELSE <<>>)
               /\ UNCHANGED <<factoryVars, pairVars, tokenBalance>>
FrameGetAmountsOut == FrameOpen /\ RouteQuote
FrameCreatePair == FrameOpen /\ NextFactory
FrameApprove == last.op = "none" /\ ShareApprove
FrameTransfer == FrameOpen /\ ShareTransfer
FrameTransferFrom == FrameOpen /\ ShareTransferFrom
FrameDeposit == FrameOpen /\ Deposit
FrameMint == FrameOpen /\ UserMint
FrameBurn == FrameOpen /\ UserBurn
FrameSwap == FrameOpen /\ UserSwap
FrameRouterSwap == FrameOpen /\ RouteSwap

NextFrame ==
    FrameGetReserves \/ FrameGetPair \/ FrameGetAmountOut \/ FrameGetAmountsOut
        \/ FrameCreatePair \/ FrameApprove \/ FrameTransfer \/ FrameTransferFrom
        \/ FrameDeposit \/ FrameMint \/ FrameBurn \/ FrameSwap \/ FrameRouterSwap

SpecFrame == InitFrame /\ [][NextFrame]_vars

\* sqrt on its own: every input up to MaxSqrtInput, and large inputs around
\* squares and at the top of the uint256 range
SqrtInputs ==
    (0..MaxSqrtInput) \cup {9999, 10000, 10001, 1000000, 2147395599, 2147395600,
                            2147395601, MaxUint256 - 1, MaxUint256}
SqrtCall ==
    \E y \in SqrtInputs :
        /\ last' = Call("sqrt", ZERO, <<y>>, OK, <<sqrt(y)>>)
        /\ UNCHANGED <<factoryVars, pairVars, tokenBalance>>

NextSqrt == SqrtCall

SpecSqrt == Init /\ [][NextSqrt]_vars

\* ================================================================ claims
SwapOps == {"swap", "swapExactTokensForTokens"}
\* the step just taken was a successful call of op
Did(op) == last'.op = op /\ last'.err = OK
Product(r0, r1, p) == r0[p] * r1[p]

\* C1: across every successful Pair.swap (called directly or by the router)
\* the product of the recorded reserves does not decrease.
C1_ProductNeverDecreases ==
    [][\A p \in PairAddrs :
          (\E op \in SwapOps : Did(op)) =>
              Product(reserve0', reserve1', p) >= Product(reserve0, reserve1, p)]_vars

RECURSIVE SumOver(_, _)
SumOver(f, S) == IF S = {} THEN 0
                 ELSE LET x == CHOOSE y \in S : TRUE IN f[x] + SumOver(f, S \ {x})

\* C2: in every reachable state of a pair, after any sequence of mint, burn and
\* share transfer/transferFrom calls, successful or failed, the holders' share
\* balances add up to totalSupply.
C2_SharesAddUp == \A p \in PairAddrs : SumOver(balanceOf[p], Holders) = totalSupply[p]

\* shares are spread over both users and the pair after a transferFrom
C2_Witness ==
    /\ last.op = "transferFrom" /\ last.err = OK
    /\ \A h \in Users \cup {PairAddr(1)} : balanceOf[PairAddr(1)][h] > 0

LedgerOps == {"mint", "burn", "swap", "swapExactTokensForTokens"}

\* C3: right after every successful mint, burn or swap (direct or routed) the
\* recorded reserves of every pair equal the pair's token balances in custody,
\* whatever balance the token reports.
C3_ReservesEqualCustody ==
    (last.op \in LedgerOps /\ last.err = OK) =>
        \A p \in Created : reserve0[p] = Custody0(p) /\ reserve1[p] = Custody1(p)

\* the output a swap step asked for on the side that was not paid into
Requested(p) == IF PaidIn0(p) > 0 THEN last'.args[3] ELSE last'.args[2]
CustodyIn(p) == IF PaidIn0(p) > 0 THEN Custody0(p) ELSE Custody1(p)

\* C4 as stated: for every amountIn > 0 and reserves > 0, after amountIn is
\* paid into the pair, swap accepts a requested output equal to the router's
\* quote (when the quote is > 0) and rejects the quote + 1.
C4_QuoteIsLargestAdmitted ==
    [][\A p \in Created :
          (last'.op = "swap" /\ QuoteFor(p).err = OK) =>
              /\ (QuoteFor(p).amountOut > 0 /\ Requested(p) = QuoteFor(p).amountOut)
                     => last'.err = OK
              /\ Requested(p) = QuoteFor(p).amountOut + 1 => last'.err # OK]_vars

\* C4 amended: swap accepts the quote unless a product of its fee check
\* exceeds uint256, which happens only when the pair's custody of the input
\* token is beyond the range of a reserve field, and then it fails with an
\* arithmetic overflow; it always rejects the quote + 1.
C4_QuoteAdmittedUnlessOverflow ==
    [][\A p \in Created :
          (last'.op = "swap" /\ QuoteFor(p).err = OK) =>
              /\ (QuoteFor(p).amountOut > 0 /\ Requested(p) = QuoteFor(p).amountOut)
                     => \/ last'.err = OK
                        \/ last'.err = "Panic" /\ CustodyIn(p) > MaxUint112
              /\ Requested(p) = QuoteFor(p).amountOut + 1 => last'.err # OK]_vars

\* a non-zero quote was asked for and paid out
C4_Witness ==
    /\ last.op = "swap" /\ last.err = OK
    /\ last.args[2] + last.args[3] > 1

RouterOp == "swapExactTokensForTokens"

\* C5: a single-hop swapExactTokensForTokens against a pair whose custody
\* equals its reserves (rIn, rOut) pays the recipient exactly
\* getAmountOut(amountIn, rIn, rOut) of the output token and leaves the
\* reserves (rIn + amountIn, rOut - that amount).
C5_SingleHopAsQuoted ==
    [][(Did(RouterOp) /\ Len(last'.args[3]) = 2) =>
          LET amountIn == last'.args[1]
              input == last'.args[3][1]
              output == last'.args[3][2]
              to == last'.args[4]
              p == getPair[<<input, output>>]
              rIn == IF input < output THEN reserve0[p] ELSE reserve1[p]
              rOut == IF input < output THEN reserve1[p] ELSE reserve0[p]
              rInAfter == IF input < output THEN reserve0'[p] ELSE reserve1'[p]
              rOutAfter == IF input < output THEN reserve1'[p] ELSE reserve0'[p]
              out == getAmountOut(amountIn, rIn, rOut).amountOut
          IN  (Custody0(p) = reserve0[p] /\ Custody1(p) = reserve1[p]) =>
                  /\ tokenBalance'[output][to] = tokenBalance[output][to] + out
                  /\ rInAfter = rIn + amountIn
                  /\ rOutAfter = rOut - out]_vars

\* C6: a swapExactTokensForTokens call that fails, at whatever hop, leaves
\* every pair's reserves, every share balance and every token balance as
\* they were before the call.
C6_RouteAtomic ==
    [][(last'.op = RouterOp /\ last'.err # OK) =>
          UNCHANGED <<getPair, allPairs, token0, token1, reserve0, reserve1,
                      totalSupply, balanceOf, allowance, tokenBalance>>]_vars

\* a call failed at its second hop, after the first hop had been executed
C6_Witness == last.op = RouterOp /\ last.err # OK /\ last.ret = <<2>>


\* the created pairs that hold the unordered token pair {a, b}
PairsOf(a, b) ==
    {i \in 1..Len(allPairs) : {token0[allPairs[i]], token1[allPairs[i]]} = {a, b}}
TokenArgs == 0..NumTokens

\* C7: the factory never holds two pairs for one unordered token pair, and a
\* createPair for a token pair that already has a pair, in either order of the
\* arguments, fails with PairExists ("EXISTS") and adds nothing.
C7_OnePairPerTokenPair ==
    [][/\ \A a \in TokenArgs, b \in TokenArgs : Cardinality(PairsOf(a, b)') <= 1
       /\ (last'.op = "createPair" /\ PairsOf(last'.args[1], last'.args[2]) # {}) =>
              (last'.err = "EXISTS" /\ allPairs' = allPairs)]_vars

\* a second createPair with the arguments swapped was refused with every
\* token pair registered
C7_Witness ==
    /\ last.op = "createPair" /\ last.err = "EXISTS"
    /\ last.args[1] > last.args[2]
    /\ Len(allPairs) = NumPairs

\* C8: createPair fails with IdenticalTokens ("IDENTICAL") when the two tokens
\* are equal, with ZeroToken ("ZERO") when they differ and the lower one is the
\* zero address, with PairExists ("EXISTS") when the pair is registered; a
\* failed createPair leaves the registry as it was.
C8_CreatePairErrors ==
    [][last'.op = "createPair" =>
          LET a == last'.args[1]
              b == last'.args[2]
              lo == IF a < b THEN a ELSE b
          IN  /\ (a = b) => last'.err = "IDENTICAL"
              /\ (a # b /\ lo = ZERO) => last'.err = "ZERO"
              /\ (a # b /\ lo # ZERO /\ PairsOf(a, b) # {}) => last'.err = "EXISTS"
              /\ (a # b /\ lo # ZERO /\ PairsOf(a, b) = {}) => last'.err = OK
              /\ last'.err # OK => UNCHANGED <<getPair, allPairs, token0, token1>>]_vars

\* the zero address passed as the second token was refused by a factory that
\* already holds a pair
C8_Witness ==
    /\ last.op = "createPair" /\ last.err = "ZERO"
    /\ last.args[1] # ZERO /\ last.args[2] = ZERO
    /\ Len(allPairs) > 0

\* C9: getPair(a, b) = getPair(b, a) for all a and b, and it is non-zero
\* exactly when a pair was created for {a, b}, and then it is that pair.
C9_GetPairSymmetric ==
    \A a \in TokenArgs, b \in TokenArgs :
        /\ getPair[<<a, b>>] = getPair[<<b, a>>]
        /\ getPair[<<a, b>>] # ZERO <=> PairsOf(a, b) # {}
        /\ \A i \in PairsOf(a, b) : getPair[<<a, b>>] = allPairs[i]

\* two pairs are registered and a third token pair is not
C9_Witness ==
    /\ Len(allPairs) = 2
    /\ getPair[<<2, 1>>] # ZERO /\ getPair[<<2, 1>>] = getPair[<<1, 2>>]
    /\ \E a \in Tokens, b \in Tokens : a # b /\ getPair[<<a, b>>] = ZERO

\* the largest z with z * z <= y
FloorSqrt(y) == CHOOSE z \in 0..y : z * z <= y /\ (z + 1) * (z + 1) > y

\* C10: a successful mint into a pair whose totalSupply is 0 issues exactly
\* floor(sqrt(amount0 * amount1)) shares to the recipient and raises
\* totalSupply by the same amount, the amounts being what the pair's custody
\* holds above its reserves.
C10_FirstMintIsSqrt ==
    [][\A p \in Created :
          (last'.op = "mint" /\ last'.err = OK /\ last'.args[1] = p
           /\ totalSupply[p] = 0) =>
              LET amount0 == Custody0(p) - reserve0[p]
                  amount1 == Custody1(p) - reserve1[p]
                  to == last'.args[2]
                  shares == FloorSqrt(amount0 * amount1)
              IN  /\ totalSupply'[p] = totalSupply[p] + shares
                  /\ balanceOf'[p][to] = balanceOf[p][to] + shares
                  /\ \A h \in Holders \ {to} : balanceOf'[p][h] = balanceOf[p][h]]_vars

\* a first mint of a deposit whose product is no perfect square went to the
\* other user
C10_Witness ==
    /\ last.op = "mint" /\ last.err = OK /\ last.args[2] = 12
    /\ totalSupply[PairAddr(1)] = last.ret[1]
    /\ last.ret[2] * last.ret[3] > last.ret[1] * last.ret[1]
    /\ last.ret[1] >= 3


\* a successful mint into pair p that is empty (no reserves, no shares) and
\* has received 4 of token0 and 9 of token1
FirstDepositOf4And9(p) ==
    /\ last'.op = "mint" /\ last'.err = OK /\ last'.args[1] = p
    /\ totalSupply[p] = 0 /\ reserve0[p] = 0 /\ reserve1[p] = 0
    /\ Custody0(p) = 4 /\ Custody1(p) = 9

\* C11 as stated: a mint on an empty pair that received 4 of token0 and 9 of
\* token1 issues 2 shares.
C11_FirstDepositIssues2 ==
    [][\A p \in Created : FirstDepositOf4And9(p) =>
          (last'.ret[1] = 2 /\ totalSupply'[p] = 2)]_vars

\* C11: a mint on an empty pair that received 4 of token0 and 9 of token1
\* issues 6 shares, the integer square root of 4 * 9 = 36, to the recipient,
\* and totalSupply becomes 6.
C11_FirstDepositIssues6 ==
    [][\A p \in Created : FirstDepositOf4And9(p) =>
          /\ last'.ret[1] = 6
          /\ totalSupply'[p] = 6
          /\ balanceOf'[p][last'.args[2]] = 6]_vars

\* the mint of the deposit (4, 9) into the empty pair was made
C11_Witness ==
    /\ last.op = "mint" /\ last.err = OK
    /\ last.ret[2] = 4 /\ last.ret[3] = 9
    /\ totalSupply[PairAddr(1)] = last.ret[1]
    /\ Custody0(PairAddr(1)) = 4 /\ Custody1(PairAddr(1)) = 9


\* the smaller of the two proportional contributions of a deposit
ProportionalShares(amount0, amount1, supply, r0, r1) ==
    LET s0 == (amount0 * supply) \div r0
        s1 == (amount1 * supply) \div r1
    IN  IF s0 < s1 THEN s0 ELSE s1

\* C12: a successful mint into a pair with totalSupply > 0 issues exactly
\* min(floor(amount0 * totalSupply / reserve0), floor(amount1 * totalSupply /
\* reserve1)) shares to the recipient, with the reserves and the supply of
\* before the call and the amounts the custody holds above the reserves; with
\* reserves (100, 200), supply 10 and amounts (10, 20) that is 1 share.
C12_ProportionalMint ==
    [][/\ MintLiquidity(10, 20, 10, 100, 200) = [err |-> OK, liquidity |-> 1]
       /\ \A p \in Created :
            (last'.op = "mint" /\ last'.err = OK /\ last'.args[1] = p
             /\ totalSupply[p] > 0) =>
                LET shares == ProportionalShares(PaidIn0(p), PaidIn1(p),
                                                 totalSupply[p], reserve0[p], reserve1[p])
                    to == last'.args[2]
                IN  /\ last'.ret[1] = shares
                    /\ totalSupply'[p] = totalSupply[p] + shares
                    /\ balanceOf'[p][to] = balanceOf[p][to] + shares]_vars

\* a second deposit with unequal amounts was minted
C12_Witness ==
    /\ last.op = "mint" /\ last.err = OK
    /\ last.ret[1] >= 1 /\ totalSupply[PairAddr(1)] > last.ret[1]
    /\ last.ret[2] # last.ret[3]


\* the step was a successful mint into, or burn from, pair p that had shares
\* before and has shares after
ChangedLiquidity(p) ==
    /\ last'.op \in {"mint", "burn"} /\ last'.err = OK /\ last'.args[1] = p
    /\ totalSupply[p] > 0 /\ totalSupply'[p] > 0

\* C13: a mint into a non-empty pair, and a burn that leaves shares, never
\* dilute the shares that were or remain there: for each token,
\* reserve_after * totalSupply_before >= reserve_before * totalSupply_after.
C13_NoDilution ==
    [][\A p \in Created : ChangedLiquidity(p) =>
          /\ reserve0'[p] * totalSupply[p] >= reserve0[p] * totalSupply'[p]
          /\ reserve1'[p] * totalSupply[p] >= reserve1[p] * totalSupply'[p]]_vars


\* the deposit waiting in pair p computes to zero shares
ComputesZeroShares(p) ==
    /\ PaidIn0(p) > 0 /\ PaidIn1(p) > 0
    /\ IF totalSupply[p] = 0 THEN FloorSqrt(PaidIn0(p) * PaidIn1(p)) = 0
       ELSE /\ reserve0[p] > 0 /\ reserve1[p] > 0
            /\ ProportionalShares(PaidIn0(p), PaidIn1(p), totalSupply[p],
                                  reserve0[p], reserve1[p]) = 0

\* C14: mint fails with InsufficientLiquidity when the custody of either
\* token is not above the recorded reserve, and when the shares computed for
\* the deposit are zero; a failed mint leaves reserves, totalSupply and every
\* share balance as they were.
C14_MintInsufficientLiquidity ==
    [][\A p \in Created : (last'.op = "mint" /\ last'.args[1] = p) =>
          /\ (PaidIn0(p) = 0 \/ PaidIn1(p) = 0) => last'.err = "InsufficientLiquidity"
          /\ ComputesZeroShares(p) => last'.err = "InsufficientLiquidity"
          /\ last'.err # OK =>
                UNCHANGED <<reserve0, reserve1, totalSupply, balanceOf>>]_vars

\* a deposit of both tokens that is too small for one share was refused
C14_Witness ==
    /\ last.op = "mint" /\ last.err = "InsufficientLiquidity"
    /\ ComputesZeroShares(PairAddr(1))


\* C15: a successful burn on pair p that holds L of its own shares sets the
\* pair's own share balance to 0 and lowers totalSupply by L, moves
\* floor(L * reserve_i / totalSupply) of each token from the pair to the
\* recipient (reserves and supply of before the call), and leaves every other
\* holder's share balance alone.
C15_BurnRedeemsProportionally ==
    [][\A p \in Created : (last'.op = "burn" /\ last'.err = OK /\ last'.args[1] = p) =>
          LET L == balanceOf[p][p]
              amount0 == (L * reserve0[p]) \div totalSupply[p]
              amount1 == (L * reserve1[p]) \div totalSupply[p]
              to == last'.args[2]
              t0 == token0[p]
              t1 == token1[p]
          IN  /\ balanceOf'[p][p] = 0
              /\ totalSupply'[p] = totalSupply[p] - L
              /\ \A h \in Holders \ {p} : balanceOf'[p][h] = balanceOf[p][h]
              /\ tokenBalance'[t0][to] = tokenBalance[t0][to] + amount0
              /\ tokenBalance'[t1][to] = tokenBalance[t1][to] + amount1
              /\ tokenBalance'[t0][p] = tokenBalance[t0][p] - amount0
              /\ tokenBalance'[t1][p] = tokenBalance[t1][p] - amount1]_vars

\* a burn of some of the shares paid out different amounts of the two tokens
\* while both users kept shares
C15_Witness ==
    /\ last.op = "burn" /\ last.err = OK
    /\ last.ret[3] >= 1 /\ last.ret[1] >= 1 /\ last.ret[2] >= 1
    /\ last.ret[1] # last.ret[2]
    /\ \A u \in Users : balanceOf[PairAddr(1)][u] > 0


\* the step was a call swap(amountOut0, amountOut1, to) on pair p
SwapCalled(p) == last'.op = "swap" /\ last'.args[1] = p

\* C16 as stated: in every state of a pair, swap(reserve0, 0, to) fails with
\* InsufficientLiquidity and changes nothing.
C16_DrainAlwaysInsufficientLiquidity ==
    [][\A p \in Created :
          (SwapCalled(p) /\ last'.args[2] = reserve0[p] /\ last'.args[3] = 0) =>
              (last'.err = "InsufficientLiquidity" /\ UNCHANGED <<factoryVars, pairVars,
                                                                tokenBalance>>)]_vars

\* C16: a swap that asks for some output (not both outputs zero) and asks for
\* at least the whole recorded reserve of a token fails with
\* InsufficientLiquidity and changes nothing; swap(reserve0, 0, to) does so
\* whenever reserve0 > 0.
C16_DrainRejected ==
    [][\A p \in Created :
          (SwapCalled(p) /\ (last'.args[2] > 0 \/ last'.args[3] > 0)
           /\ (last'.args[2] >= reserve0[p] \/ last'.args[3] >= reserve1[p])) =>
              (last'.err = "InsufficientLiquidity" /\ UNCHANGED <<factoryVars, pairVars,
                                                                tokenBalance>>)]_vars

\* a swap asking for exactly the whole reserve of token0 of a funded pair was
\* refused
C16_Witness ==
    /\ last.op = "swap" /\ last.err = "InsufficientLiquidity"
    /\ last.args[2] = reserve0[PairAddr(1)] /\ last.args[2] > 0 /\ last.args[3] = 0
    /\ reserve1[PairAddr(1)] > 0


\* C17: after every successful swap, direct or routed, both recorded reserves
\* of the pair swapped on are greater than zero (a swap succeeds only on a
\* pair whose reserves were both greater than zero before it).
C17_NeverDrained ==
    [][(\E op \in SwapOps : Did(op)) =>
          \A p \in Created :
              (reserve0[p] > 0 /\ reserve1[p] > 0) =>
                  (reserve0'[p] > 0 /\ reserve1'[p] > 0)]_vars


\* the larger of 0 and x
Positive(x) == IF x > 0 THEN x ELSE 0

\* what the input checks of swap promise for the call just made on pair p:
\* InsufficientInput when both implied inputs are zero and when the fee-scaled
\* balances multiply to less than reserve0 * reserve1 * 1000^2, nothing
\* changed by that failure, and no success with both implied inputs zero; the
\* balances are those the pair holds once the requested outputs are sent
InputChecks(p) ==
    LET balance0 == Custody0(p) - last'.args[2]
        balance1 == Custody1(p) - last'.args[3]
        amountIn0 == Positive(balance0 - (reserve0[p] - last'.args[2]))
        amountIn1 == Positive(balance1 - (reserve1[p] - last'.args[3]))
        left0 == balance0 * 1000 - 3 * amountIn0
        left1 == balance1 * 1000 - 3 * amountIn1
    IN  /\ (amountIn0 = 0 /\ amountIn1 = 0) => last'.err = "InsufficientInput"
        /\ (~MulOverflows(left0, left1)
            /\ left0 * left1 < reserve0[p] * reserve1[p] * 1000 * 1000) =>
               last'.err = "InsufficientInput"
        /\ last'.err = OK => (amountIn0 > 0 \/ amountIn1 > 0)
        /\ last'.err = "InsufficientInput" =>
               UNCHANGED <<reserve0, reserve1, tokenBalance>>

\* C18 as stated: every swap fails with InsufficientInput, leaving reserves
\* and token balances unchanged, when both implied inputs
\* max(0, balance_i - (reserve_i - amountOut_i)) are zero or when
\* (balance0 * 1000 - 3 * amountIn0) * (balance1 * 1000 - 3 * amountIn1) <
\* reserve0 * reserve1 * 1000^2; no swap succeeds without a nonzero implied
\* input.
C18_SwapInsufficientInputAlways ==
    [][\A p \in Created :
          (SwapCalled(p) /\ last'.args[2] <= Custody0(p)
           /\ last'.args[3] <= Custody1(p)) => InputChecks(p)]_vars

\* C18: the same for a swap whose requested outputs pass the checks that come
\* first: not both outputs zero (InsufficientOutput otherwise) and each
\* output below its reserve (InsufficientLiquidity otherwise).
C18_SwapInsufficientInput ==
    [][\A p \in Created :
          (SwapCalled(p) /\ (last'.args[2] > 0 \/ last'.args[3] > 0)
           /\ last'.args[2] < reserve0[p] /\ last'.args[3] < reserve1[p]) =>
              InputChecks(p)]_vars

\* a swap that was paid for, but by too little for the output it asked for,
\* was refused
C18_Witness ==
    /\ last.op = "swap" /\ last.err = "InsufficientInput"
    /\ last.args[2] = 0 /\ last.args[3] > 0 /\ last.args[3] < reserve1[PairAddr(1)]
    /\ PaidIn0(PairAddr(1)) > 0 /\ reserve0[PairAddr(1)] > 0


\* C19: a swap with both requested outputs zero fails with InsufficientOutput
\* in every state of the pair, whatever its reserves and whatever was paid
\* in, and changes nothing.
C19_NoOutputRejectedFirst ==
    [][\A p \in Created :
          (SwapCalled(p) /\ last'.args[2] = 0 /\ last'.args[3] = 0) =>
              (last'.err = "InsufficientOutput" /\ UNCHANGED <<factoryVars, pairVars,
                                                             tokenBalance>>)]_vars

\* swap(0, 0) was refused for its outputs on a pair with no reserves (the
\* reserve test would fail) that had been paid into
C19_Witness ==
    /\ last.op = "swap" /\ last.err = "InsufficientOutput"
    /\ last.args[2] = 0 /\ last.args[3] = 0
    /\ reserve0[PairAddr(1)] = 0 /\ reserve1[PairAddr(1)] = 0
    /\ Custody0(PairAddr(1)) > 0


\* the products and the sum of the quote stay within 256 bits
QuoteFits(amountIn, reserveIn, reserveOut) ==
    /\ amountIn <= MaxUint256 \div 997
    /\ amountIn * 997 <= MaxUint256 \div reserveOut
    /\ reserveIn <= MaxUint256 \div 1000
    /\ reserveIn * 1000 <= MaxUint256 - amountIn * 997
QuoteValue(amountIn, reserveIn, reserveOut) ==
    (amountIn * 997 * reserveOut) \div (reserveIn * 1000 + amountIn * 997)

\* C20 as stated: getAmountOut fails with InsufficientInput if amountIn = 0,
\* with InsufficientLiquidity if either reserve is 0, and otherwise returns
\* floor(amountIn * 997 * reserveOut / (reserveIn * 1000 + amountIn * 997)).
C20_QuoteAlwaysReturned ==
    [][last'.op = "getAmountOut" =>
          LET amountIn == last'.args[1]
              reserveIn == last'.args[2]
              reserveOut == last'.args[3]
          IN  IF amountIn = 0 THEN last'.err = "INSUFFICIENT_INPUT"
              ELSE IF reserveIn = 0 \/ reserveOut = 0
                   THEN last'.err = "INSUFFICIENT_LIQUIDITY"
              ELSE /\ last'.err = OK
                   /\ QuoteFits(amountIn, reserveIn, reserveOut) =>
                         last'.ret = <<QuoteValue(amountIn, reserveIn, reserveOut)>>]_vars

\* C20: getAmountOut fails with InsufficientInput if amountIn = 0, otherwise
\* with InsufficientLiquidity if either reserve is 0, otherwise with an
\* arithmetic overflow if amountIn * 997, amountIn * 997 * reserveOut,
\* reserveIn * 1000 or reserveIn * 1000 + amountIn * 997 exceeds 256 bits, and
\* otherwise returns floor(amountIn * 997 * reserveOut / (reserveIn * 1000 +
\* amountIn * 997)); the outcome is a function of the three arguments, and
\* the call changes no state.
C20_QuoteFormula ==
    [][last'.op = "getAmountOut" =>
          LET amountIn == last'.args[1]
              reserveIn == last'.args[2]
              reserveOut == last'.args[3]
          IN  /\ IF amountIn = 0 THEN last'.err = "INSUFFICIENT_INPUT"
                 ELSE IF reserveIn = 0 \/ reserveOut = 0
                      THEN last'.err = "INSUFFICIENT_LIQUIDITY"
                 ELSE IF ~QuoteFits(amountIn, reserveIn, reserveOut)
                      THEN last'.err = "Panic"
                 ELSE /\ last'.err = OK
                      /\ last'.ret = <<QuoteValue(amountIn, reserveIn, reserveOut)>>
              /\ UNCHANGED <<factoryVars, pairVars, tokenBalance>>]_vars

\* a quote was returned that the fee and the rounding both shape, in a state
\* whose pair holds other reserves than the ones passed
C20_Witness ==
    /\ last.op = "getAmountOut" /\ last.err = OK
    /\ last.args = <<100, 1000, 1000>> /\ last.ret = <<90>>
    /\ reserve0[PairAddr(1)] > 0 /\ reserve0[PairAddr(1)] # 1000

\* the created pairs of an unordered token pair, and a pair's reserve of a token
PairFor(a, b) == {p \in Created : {token0[p], token1[p]} = {a, b}}
ReserveOf(p, t) == IF token0[p] = t THEN reserve0[p] ELSE reserve1[p]
QuoteOp == "getAmountsOut"

\* amounts is the chain of single-hop quotes of amountIn along path
ChainedQuote(amountIn, path, amounts) ==
    /\ Len(amounts) = Len(path)
    /\ amounts[1] = amountIn
    /\ \A i \in 1..(Len(path) - 1) :
           \E p \in PairFor(path[i], path[i + 1]) :
               LET q == getAmountOut(amounts[i], ReserveOf(p, path[i]),
                                     ReserveOf(p, path[i + 1]))
               IN  q.err = OK /\ amounts[i + 1] = q.amountOut

\* the registry and the reserves of the example: pair A-B holds (1000, 1000),
\* pair B-C holds 1000 B and 4000 C
ExampleRegistry ==
    [NoPairs EXCEPT ![<<1, 2>>] = PairAddr(1), ![<<2, 1>>] = PairAddr(1),
                    ![<<2, 3>>] = PairAddr(2), ![<<3, 2>>] = PairAddr(2)]
ExampleReserve0 == [p \in PairAddrs |-> 1000]
ExampleReserve1 == [p \in PairAddrs |-> IF p = PairAddr(2) THEN 4000 ELSE 1000]

\* C21: every array getAmountsOut returns has one amount per path token, starts
\* with amountIn and continues with the getAmountOut of the amount before on
\* the reserves of the hop's pair, taken in the direction of the hop; on
\* reserves (1000, 1000) and (1000, 4000) getAmountsOut(100, [A, B, C]) is
\* [100, 90, 329]; the same query on unchanged reserves returns the same array.
C21_GetAmountsOutChains ==
    [][Did(QuoteOp) =>
          /\ ChainedQuote(last'.args[1], last'.args[2], last'.ret)
          /\ getAmountsOut(ExampleRegistry, ExampleReserve0, ExampleReserve1, 100,
                           <<1, 2, 3>>) = [err |-> OK, amounts |-> <<100, 90, 329>>]
          /\ (last.op = QuoteOp /\ last.err = OK /\ last.args[1] = last'.args[1]
                 /\ Len(last.args[2]) = Len(last'.args[2])
                 /\ last.args[2] = last'.args[2])
                => last'.ret = last.ret]_vars

\* a quote over two hops against the canonical order of both pairs returned a
\* positive final amount
C21_Witness ==
    /\ last.op = QuoteOp
    /\ last.err = OK
    /\ Len(last.args[2]) = 3
    /\ last.args[2][1] > last.args[2][2]
    /\ last.args[2][2] > last.args[2][3]
    /\ last.ret[3] >= 1
    /\ last.ret[2] # last.ret[3]


RouteOps == {QuoteOp, RouterOp}
\* the arguments of the routing call just made
CalledAmountIn == last'.args[1]
CalledPath == IF last'.op = QuoteOp THEN last'.args[2] ELSE last'.args[3]
MissingHops(path) == {i \in 1..(Len(path) - 1) : getPair[<<path[i], path[i + 1]>>] = ZERO}
FirstMissing(path) == CHOOSE i \in MissingHops(path) : \A j \in MissingHops(path) : i <= j
NothingMoved == UNCHANGED <<factoryVars, pairVars, tokenBalance>>
\* the error of the quote of the hops before the first hop without a pair
ErrorBeforeMissing(amountIn, path) ==
    IF FirstMissing(path) = 1 THEN OK
    ELSE getAmountsOut(getPair, reserve0, reserve1, amountIn,
                       SubSeq(path, 1, FirstMissing(path))).err

\* C22 as stated: getAmountsOut and swapExactTokensForTokens fail with
\* PathTooShort ("PATH_SHORT") on a path of fewer than two tokens and with
\* PairNotFound whenever some consecutive pair of path tokens has no pair, and
\* move nothing.
C22_PairNotFoundAlways ==
    [][last'.op \in RouteOps =>
          /\ Len(CalledPath) < 2 => (last'.err = "PATH_SHORT" /\ NothingMoved)
          /\ (Len(CalledPath) >= 2 /\ MissingHops(CalledPath) # {})
                => (last'.err = "PairNotFound" /\ NothingMoved)]_vars

\* C22: getAmountsOut and swapExactTokensForTokens fail with "PATH_SHORT" on a
\* path of fewer than two tokens; on a longer path with a hop that has no pair
\* they fail with PairNotFound when every hop before the first such hop quotes,
\* and with the error of the first hop that does not quote otherwise; in all
\* these cases nothing is transferred and no pair changes.
C22_PathErrors ==
    [][last'.op \in RouteOps =>
          /\ Len(CalledPath) < 2 => (last'.err = "PATH_SHORT" /\ NothingMoved)
          /\ (Len(CalledPath) >= 2 /\ MissingHops(CalledPath) # {})
                => /\ NothingMoved
                   /\ last'.err =
                        IF ErrorBeforeMissing(CalledAmountIn, CalledPath) = OK
                        THEN "PairNotFound"
                        ELSE ErrorBeforeMissing(CalledAmountIn, CalledPath)]_vars

\* a routed swap failed with PairNotFound on the third hop of its path, after
\* two hops that quote
C22_Witness ==
    /\ last.op = RouterOp
    /\ last.err = "PairNotFound"
    /\ Len(last.args[3]) = 4
    /\ MissingHops(last.args[3]) = {3}


LastOf(seq) == seq[Len(seq)]

\* C23: a swapExactTokensForTokens whose quote ends below amountOutMin fails
\* with SlippageExceeded ("SLIPPAGE") after the quote and before the funding
\* transfer, with nothing moved; every successful call raises the recipient's
\* balance of the last path token by the last returned amount, which is at
\* least amountOutMin.
C23_SlippageGuard ==
    [][last'.op = RouterOp =>
          LET amountOutMin == last'.args[2]
              path == last'.args[3]
              to == last'.args[4]
              q == getAmountsOut(getPair, reserve0, reserve1, last'.args[1], path)
          IN  /\ (q.err = OK /\ LastOf(q.amounts) < amountOutMin)
                    => /\ last'.err = "SLIPPAGE"
                       /\ last'.steps = <<<<"Quoted">>>>
                       /\ NothingMoved
              /\ last'.err = OK
                    => /\ LastOf(last'.ret) >= amountOutMin
                       /\ tokenBalance'[LastOf(path)][to]
                              = tokenBalance[LastOf(path)][to] + LastOf(last'.ret)]_vars

\* a two-hop swap with a positive amountOutMin succeeded
C23_Witness ==
    /\ last.op = RouterOp
    /\ last.err = OK
    /\ last.args[2] >= 1
    /\ Len(last.args[3]) = 3
    /\ LastOf(last.ret) >= last.args[2]


\* C24 as stated: no swapExactTokensForTokens call, successful or failed,
\* changes the router's own balance of any token.
C24_RouterBalanceUnchanged ==
    [][last'.op = RouterOp =>
          \A t \in Tokens : tokenBalance'[t][ROUTER] = tokenBalance[t][ROUTER]]_vars

\* C24: a swapExactTokensForTokens call changes the router's own balance of no
\* token, except that a successful call whose recipient is the router itself
\* raises the router's balance of the last path token by the last amount.
C24_RouterHoldsOnlyWhatItIsSent ==
    [][last'.op = RouterOp =>
          \A t \in Tokens :
              tokenBalance'[t][ROUTER] =
                  tokenBalance[t][ROUTER]
                      + (IF last'.err = OK /\ last'.args[4] = ROUTER
                            /\ t = LastOf(last'.args[3])
                         THEN LastOf(last'.ret) ELSE 0)]_vars

\* a two-hop swap to a recipient other than the router succeeded and paid out,
\* and the router holds nothing
C24_Witness ==
    /\ last.op = RouterOp
    /\ last.err = OK
    /\ Len(last.args[3]) = 3
    /\ last.args[4] # ROUTER
    /\ tokenBalance[LastOf(last.args[3])][last.args[4]] >= 1
    /\ \A t \in Tokens : tokenBalance[t][ROUTER] = 0


\* step is the swap of hop i of a route of amounts along path to the recipient
\* to: the pair of the hop is asked for amounts[i + 1], not zero, in the slot of
\* path[i + 1] and for nothing in the other slot, and pays the pair of the next
\* hop, or to on the last hop
HopAsRouted(step, i, amounts, path, to) ==
    /\ Len(step) = 5
    /\ step[1] = "Hop"
    /\ step[2] \in PairFor(path[i], path[i + 1])
    /\ amounts[i + 1] > 0
    /\ step[3] = (IF token0[step[2]] = path[i + 1] THEN amounts[i + 1] ELSE 0)
    /\ step[4] = (IF token1[step[2]] = path[i + 1] THEN amounts[i + 1] ELSE 0)
    /\ IF i < Len(path) - 1 THEN step[5] \in PairFor(path[i + 1], path[i + 2])
       ELSE step[5] = to

\* C25: the steps of a swapExactTokensForTokens call are, in this order,
\* Quoted, Funded, one swap per hop from the first hop to the last, Complete;
\* a failed call went through a start of that sequence; the swap of hop i asks
\* for exactly amounts[i + 1] of path[i + 1], in that token's slot, and is paid
\* to the pair of hop i + 1, or to the caller's recipient on the last hop.
C25_StepsInOrder ==
    last.op = RouterOp =>
        LET path == last.args[3]
            to == last.args[4]
            steps == last.steps
            hops == Len(path) - 1
            amounts == IF last.err = OK THEN last.ret
                       ELSE getAmountsOut(getPair, reserve0, reserve1, last.args[1],
                                          path).amounts
        IN  /\ Len(steps) >= 1 => steps[1] = <<"Quoted">>
            /\ Len(steps) >= 2 => steps[2] = <<"Funded">>
            /\ IF last.err = OK
               THEN /\ Len(steps) = hops + 3
                    /\ steps[hops + 3] = <<"Complete">>
                    /\ \A i \in 1..hops : HopAsRouted(steps[i + 2], i, amounts, path, to)
               ELSE /\ Len(steps) <= hops + 2
                    /\ \A i \in 1..(Len(steps) - 2) :
                           HopAsRouted(steps[i + 2], i, amounts, path, to)

\* a swap over two hops, the first against the canonical order of its pair,
\* went through all its steps
C25_Witness ==
    /\ last.op = RouterOp
    /\ Len(last.steps) = 5
    /\ last.steps[5] = <<"Complete">>
    /\ last.args[3][1] > last.args[3][2]
    /\ last.steps[3][5] # last.steps[3][2]


\* the routed call just made got as far as its funding transfer, and the
\* token did not move the amount: the sender held less than amountIn
FundingFailed ==
    /\ last'.op = RouterOp
    /\ Len(last'.steps) >= 2
    /\ TokenTransferFails(tokenBalance, last'.args[3][1], last'.sender, last'.args[1])

\* C26: a swapExactTokensForTokens whose funding transfer reports a
\* non-success result fails with TransferFailed ("TRANSFER_FAILED") and changes
\* nothing (the payouts of burn and swap go through _safeTransfer, which has
\* this check).
C26_FailedTransferFailsCall ==
    [][FundingFailed => (last'.err = "TRANSFER_FAILED" /\ NothingMoved)]_vars


PairOps == {"mint", "burn", "swap"}

\* C27: a call of mint, burn or swap that would record a custody balance
\* larger than the reserve field fails with an arithmetic overflow and changes
\* nothing: no successful call leaves its pair holding a balance that does not
\* fit the reserve field.
C27_NoSilentWrap ==
    [][(last'.op \in PairOps /\ last'.err = OK) =>
          /\ tokenBalance'[token0[last'.args[1]]][last'.args[1]] <= MaxUint112
          /\ tokenBalance'[token1[last'.args[1]]][last'.args[1]] <= MaxUint112]_vars


\* the state the calls of the pairs read and write
World ==
    [tb |-> tokenBalance, r0 |-> reserve0, r1 |-> reserve1, supply |-> totalSupply,
     bal |-> balanceOf]
\* the calls of pair p compared: <<operation, pair, amountOut0, amountOut1, to>>
PairCalls(p) ==
    LET recipients == Users \cup (Created \ {p})
    IN  {<<op, p, 0, 0, to>> : op \in {"mint", "burn"}, to \in recipients}
            \cup {<<"swap", p, a[1], a[2], to>> : a \in {<<1, 0>>, <<0, 1>>},
                                                 to \in recipients}
\* call c made in world w: its error, what it returns and the world it leaves
ApplyCall(w, c) ==
    LET p == c[2]
        r == IF c[1] = "mint"
             THEN MintResult(w.tb, p, w.r0[p], w.r1[p], w.supply[p], w.bal[p], c[5])
             ELSE IF c[1] = "burn"
             THEN BurnResult(w.tb, p, w.r0[p], w.r1[p], w.supply[p], w.bal[p], c[5])
             ELSE LET s == SwapResult(w.tb, p, w.r0[p], w.r1[p], c[3], c[4], c[5])
                  IN  [err |-> s.err, tb |-> s.tb, r0 |-> s.r0, r1 |-> s.r1,
                       supply |-> w.supply[p], bal |-> w.bal[p],
                       ret |-> <<s.in0, s.in1>>]
    IN  [err |-> r.err, ret |-> r.ret,
         w |-> [tb |-> r.tb, r0 |-> [w.r0 EXCEPT ![p] = r.r0],
                r1 |-> [w.r1 EXCEPT ![p] = r.r1],
                supply |-> [w.supply EXCEPT ![p] = r.supply],
                bal |-> [w.bal EXCEPT ![p] = r.bal]]]
\* calls c and d succeed in both orders
BothOrdersSucceed(w, c, d) ==
    LET first == ApplyCall(w, c)
        second == ApplyCall(w, d)
    IN  /\ first.err = OK
        /\ second.err = OK
        /\ ApplyCall(first.w, d).err = OK
        /\ ApplyCall(second.w, c).err = OK
Commute(w, c, d) ==
    LET first == ApplyCall(w, c)
        second == ApplyCall(w, d)
        firstSecond == ApplyCall(first.w, d)
        secondFirst == ApplyCall(second.w, c)
    IN  /\ firstSecond.w = secondFirst.w
        /\ secondFirst.ret = first.ret
        /\ firstSecond.ret = second.ret

\* C28: a mint, burn or swap on one pair and a mint, burn or swap on another
\* pair, neither paying the other pair, that both succeed in either order give
\* the same results and the same final state in both orders, also when the
\* pairs share a token.
C28_DifferentPairsCommute ==
    \A p \in Created, q \in Created :
        p < q =>
            \A c \in PairCalls(p) :
                (c[5] # q /\ ApplyCall(World, c).err = OK) =>
                    \A d \in PairCalls(q) :
                        (d[5] # p /\ BothOrdersSucceed(World, c, d))
                            => Commute(World, c, d)

\* after a call of the pair of tokens 2 and 3, a burn of the pair of tokens 1
\* and 2 and a swap of the other pair can both pay user 11 in the shared token
\* 2, in both orders
C28_Witness ==
    /\ last.op \in PairOps
    /\ last.err = OK
    /\ last.args[1] = PairAddr(2)
    /\ BothOrdersSucceed(World, <<"burn", PairAddr(1), 0, 0, 11>>,
                         <<"swap", PairAddr(2), 1, 0, 11>>)
    /\ ApplyCall(World, <<"burn", PairAddr(1), 0, 0, 11>>).ret[2] >= 1


\* seq continues old by exactly one entry
ExtendsByOne(old, seq) ==
    /\ Len(seq) = Len(old) + 1
    /\ \A i \in 1..Len(old) : seq[i] = old[i]

\* C29: a new factory has no pair; every successful createPair appends exactly
\* one entry to allPairs and every other call leaves allPairs as it was, so
\* that allPairsLength is the number of successful createPair calls; no call
\* removes or changes an entry of allPairs or a non-zero entry of getPair.
C29_RegistryOnlyGrows ==
    /\ allPairs = <<>>
    /\ [][/\ IF Did("createPair") THEN ExtendsByOne(allPairs, allPairs')
             ELSE allPairs' = allPairs
          /\ \A a \in TokenArgs, b \in TokenArgs :
                 getPair[<<a, b>>] # ZERO => getPair'[<<a, b>>] = getPair[<<a, b>>]]_vars

\* the third pair was created after two others, which are still registered
C29_Witness ==
    /\ last.op = "createPair" /\ last.err = OK
    /\ Len(allPairs) = 3
    /\ last.ret[1] = allPairs[3]
    /\ allPairs[1] # allPairs[2]
    /\ \A i \in 1..2 : \E a \in Tokens, b \in Tokens : getPair[<<a, b>>] = allPairs[i]


\* C30: the pair a successful createPair(tokenA, tokenB) creates has
\* token0 < token1, token0 not the zero address and {token0, token1} =
\* {tokenA, tokenB}, and starts with both reserves and totalSupply 0; token0
\* and token1 of a created pair never change.
C30_PairBornSortedAndEmpty ==
    [][/\ Did("createPair") =>
              LET pair == last'.ret[1]
              IN  /\ token0'[pair] < token1'[pair]
                  /\ token0'[pair] # ZERO
                  /\ {token0'[pair], token1'[pair]} = {last'.args[1], last'.args[2]}
                  /\ reserve0'[pair] = 0 /\ reserve1'[pair] = 0
                  /\ totalSupply'[pair] = 0
                  /\ pair \notin Created
       /\ \A p \in Created : token0'[p] = token0[p] /\ token1'[p] = token1[p]]_vars

\* a pair was created from tokens passed in descending order, after another
\* pair
C30_Witness ==
    /\ last.op = "createPair" /\ last.err = OK
    /\ last.args[1] > last.args[2]
    /\ token0[last.ret[1]] = last.args[2]
    /\ token1[last.ret[1]] = last.args[1]
    /\ Len(allPairs) >= 2


FrameOps ==
    {"getReserves", "getAmountOut", "getAmountsOut", "getPair", "createPair",
     "approve", "transfer", "transferFrom", "token.transfer"}
\* the call just made is a successful mint, burn or swap of pair p, the swap
\* called directly or as a hop of the router
ChangesLedgerOf(p) ==
    /\ last'.err = OK
    /\ \/ last'.op \in PairOps /\ last'.args[1] = p
       \/ /\ last'.op = RouterOp
          /\ \E i \in 1..(Len(last'.args[3]) - 1) :
                 p \in PairFor(last'.args[3][i], last'.args[3][i + 1])
LedgerUnchanged(p) ==
    /\ reserve0'[p] = reserve0[p]
    /\ reserve1'[p] = reserve1[p]
    /\ totalSupply'[p] = totalSupply[p]

\* C31: reserve0, reserve1 and totalSupply of a pair change only in a
\* successful mint, burn or swap of that pair; getReserves, getAmountOut,
\* getAmountsOut, getPair, createPair, approve, transfer, transferFrom of the
\* shares and token transfers to the pair leave them as they were.
C31_LedgerChangesOnlyInMintBurnSwap ==
    [][\A p \in Created :
           /\ ~LedgerUnchanged(p) => ChangesLedgerOf(p)
           /\ last'.op \in FrameOps => LedgerUnchanged(p)]_vars

\* shares were moved by transferFrom while the pair held tokens above its
\* reserves
C31_Witness ==
    /\ last.op = "transferFrom"
    /\ last.err = OK
    /\ Custody0(last.args[1]) > reserve0[last.args[1]]
    /\ totalSupply[last.args[1]] > 0


\* z is the floor of the square root of y: z * z <= y < (z + 1) * (z + 1),
\* written with divisions
IsFloorSqrt(z, y) ==
    /\ z >= 0
    /\ z = 0 \/ z <= y \div z
    /\ z + 1 > y \div (z + 1)

\* C32: sqrt returns, for every y, the one z with z * z <= y < (z + 1) * (z + 1):
\* 0 for y = 0, 1 for y from 1 to 3, the result of the iteration above 3.
C32_SqrtIsFloor ==
    last.op = "sqrt" =>
        LET y == last.args[1]
            z == last.ret[1]
        IN  /\ last.err = OK
            /\ IsFloorSqrt(z, y)
            /\ y = 0 => z = 0
            /\ (1 <= y /\ y <= 3) => z = 1

\* sqrt was called on a number above 3 that is not a square, with a result of
\* two digits
C32_Witness ==
    /\ last.op = "sqrt"
    /\ last.args[1] > 3
    /\ last.ret[1] >= 10
    /\ last.ret[1] * last.ret[1] < last.args[1]


\* C33: in every state reached through mint, burn, swap, share transfers and
\* token transfers to the pair, a pair with totalSupply > 0 has reserve0 > 0
\* and reserve1 > 0.
C33_SupplyImpliesReserves ==
    \A p \in Created : totalSupply[p] > 0 => (reserve0[p] > 0 /\ reserve1[p] > 0)


\* C34: in every state reached through mint, burn, swap, router swaps and
\* token transfers to the pair, each pair holds at least its recorded reserve
\* of each of its tokens, and no payout of a pair fails for want of tokens.
C34_CustodyCoversReserves ==
    /\ \A p \in Created : Custody0(p) >= reserve0[p] /\ Custody1(p) >= reserve1[p]
    /\ last.op \in LedgerOps => last.err # "TRANSFER_FAILED"

\* a burn paid out of both tokens and left the pair holding tokens
C34_Witness ==
    /\ last.op = "burn"
    /\ last.err = OK
    /\ last.ret[1] >= 1 /\ last.ret[2] >= 1
    /\ reserve0[last.args[1]] >= 1
    /\ Custody0(last.args[1]) = reserve0[last.args[1]]



\* C35: mint credits the shares for the pair's whole unaccounted surplus to
\* the recipient its caller names, whoever sent the tokens; and a mint that
\* another actor calls right after a successful mint, with no deposit in
\* between, fails with InsufficientLiquidity and changes nothing.
MintTakesSurplus ==
    Did("mint") =>
        LET p == last'.args[1]
            to == last'.args[2]
        IN  /\ last'.ret[2] = Custody0(p) - reserve0[p]
            /\ last'.ret[3] = Custody1(p) - reserve1[p]
            /\ last'.ret[1] > 0
            /\ balanceOf'[p][to] = balanceOf[p][to] + last'.ret[1]
            /\ \A h \in Holders \ {to, ZERO} : balanceOf'[p][h] = balanceOf[p][h]

LateMintFails ==
    (/\ last.op = "mint" /\ last.err = OK
     /\ last'.op = "mint" /\ last'.args[1] = last.args[1]
     /\ last'.sender # last.sender)
        => /\ last'.err = "InsufficientLiquidity"
           /\ UNCHANGED <<factoryVars, pairVars, tokenBalance>>

C35_FirstNotifierTakesDeposit == [][MintTakesSurplus /\ LateMintFails]_vars


\* C36: a swapExactTokensForTokens call whose path goes through the same pair
\* in two consecutive hops (path[i] = path[i + 2] for some i) fails and
\* changes no state.
RevisitsPair(path) == \E i \in 1..(Len(path) - 2) : path[i] = path[i + 2]

C36_RoundTripAlwaysFails ==
    [][(last'.op = RouterOp /\ RevisitsPair(last'.args[3]))
           => (last'.err # OK /\ NothingMoved)]_vars


\* C37: every successful swapExactTokensForTokens returns amounts that are
\* all positive; a call whose quote is 0 at an intermediate hop fails in
\* quoting with INSUFFICIENT_INPUT, and a call whose final quoted amount is 0
\* fails at the pair with InsufficientOutput, whatever amountOutMin is.
CalledQuote == getAmountsOut(getPair, reserve0, reserve1, last'.args[1], last'.args[3])
QuoteUpTo(k) ==
    getAmountsOut(getPair, reserve0, reserve1, last'.args[1], SubSeq(last'.args[3], 1, k))
ZeroAtIntermediateHop ==
    \E k \in 2..(Len(last'.args[3]) - 1) :
        QuoteUpTo(k).err = OK /\ QuoteUpTo(k).amounts[k] = 0
ZeroAtFinalHop ==
    /\ CalledQuote.err = OK
    /\ CalledQuote.amounts[Len(CalledQuote.amounts)] = 0
AmountsPositive ==
    Did(RouterOp) => \A i \in 1..Len(last'.ret) : last'.ret[i] > 0

C37_AmountsPositive ==
    [][/\ AmountsPositive
       /\ (last'.op = RouterOp /\ ZeroAtIntermediateHop)
              => (last'.err = "INSUFFICIENT_INPUT" /\ last'.steps = <<>>)
       /\ (last'.op = RouterOp /\ ZeroAtFinalHop /\ last'.args[2] = 0)
              => last'.err = "InsufficientOutput"]_vars


\* C37 as the code has it: the amounts of a successful call are all positive;
\* a quote that is 0 at an intermediate hop fails in quoting, before anything
\* moves, with INSUFFICIENT_INPUT when the next hop has a pair and with
\* PairNotFound when it has none; a call whose final quoted amount is 0 never
\* succeeds: it fails with SLIPPAGE when amountOutMin > 0, and otherwise in the
\* funding transfer or at a pair, with InsufficientOutput when the pair that
\* fails is the last one (always so on a single hop whose funding went through).
NextHopMissing ==
    \E k \in 2..(Len(last'.args[3]) - 1) :
        /\ QuoteUpTo(k).err = OK /\ QuoteUpTo(k).amounts[k] = 0
        /\ getPair[<<last'.args[3][k], last'.args[3][k + 1]>>] = ZERO
SenderHoldsInput ==
    ~TokenTransferFails(tokenBalance, last'.args[3][1], last'.sender, last'.args[1])
\* the hop at which the reverted call failed (0: before the first hop)
FailedHop == last'.ret[1]

C37_AmountsPositiveOrdered ==
    [][/\ AmountsPositive
       /\ (last'.op = RouterOp /\ ZeroAtIntermediateHop)
              => /\ last'.steps = <<>>
                 /\ NothingMoved
                 /\ last'.err = IF NextHopMissing THEN "PairNotFound"
                                ELSE "INSUFFICIENT_INPUT"
       /\ (last'.op = RouterOp /\ ZeroAtFinalHop)
              => /\ last'.err # OK
                 /\ NothingMoved
                 /\ last'.args[2] > 0 => last'.err = "SLIPPAGE"
                 /\ last'.args[2] = 0 =>
                        /\ FailedHop = 0 => last'.err = "TokenRevert"
                        /\ FailedHop = Len(last'.args[3]) - 1
                               => last'.err = "InsufficientOutput"
                        /\ (Len(last'.args[3]) = 2 /\ SenderHoldsInput)
                               => last'.err = "InsufficientOutput"]_vars

C37_Witness ==
    /\ last.op = RouterOp
    /\ last.err = "InsufficientOutput"
    /\ last.args[2] = 0
    /\ last.ret = <<Len(last.args[3]) - 1>>
    /\ last.steps[2] = <<"Funded">>


\* C38: for positive amountIn, reserveIn and reserveOut the amount that
\* getAmountOut returns is strictly less than reserveOut, so a swap that asks
\* a pair for the amount quoted from its current reserves never fails the
\* pair's reserve test (InsufficientLiquidity).
SwapAsksQuote(p) ==
    /\ last'.op = "swap" /\ last'.args[1] = p
    /\ QuoteFor(p).err = OK
    /\ IF PaidIn0(p) > 0
       THEN last'.args[2] = 0 /\ last'.args[3] = QuoteFor(p).amountOut
       ELSE last'.args[3] = 0 /\ last'.args[2] = QuoteFor(p).amountOut

C38_QuoteBelowReserve ==
    [][\A p \in Created :
          /\ (QuoteFor(p).err = OK /\ PaidIn0(p) > 0)
                 => QuoteFor(p).amountOut < reserve1[p]
          /\ (QuoteFor(p).err = OK /\ PaidIn0(p) = 0)
                 => QuoteFor(p).amountOut < reserve0[p]
          /\ SwapAsksQuote(p) => last'.err # "InsufficientLiquidity"]_vars

\* a swap at the quote succeeded and took all of the output reserve but one unit
C38_Witness ==
    /\ last.op = "swap" /\ last.err = OK
    /\ last.args[2] = 0 /\ last.args[3] >= 2
    /\ reserve1[last.args[1]] = 1
    /\ Custody1(last.args[1]) = 1


\* C39: burn fails and changes no state when totalSupply is 0; when
\* totalSupply > 0 it succeeds for any amount of shares held by the pair, and
\* with no shares held it pays out (0, 0), leaves totalSupply, the share
\* balances and the token balances as they were, and sets the reserves to
\* what the pair holds.
BurnOfNothing(p) ==
    /\ last'.ret[1] = 0 /\ last'.ret[2] = 0
    /\ totalSupply' = totalSupply
    /\ balanceOf' = balanceOf
    /\ tokenBalance' = tokenBalance
    /\ reserve0'[p] = Custody0(p)
    /\ reserve1'[p] = Custody1(p)

C39_BurnOutcomes ==
    [][last'.op = "burn" =>
          LET p == last'.args[1]
          IN  /\ totalSupply[p] = 0 => (last'.err = "Panic" /\ NothingMoved)
              /\ totalSupply[p] > 0 => last'.err = OK
              /\ (totalSupply[p] > 0 /\ balanceOf[p][p] = 0) => BurnOfNothing(p)]_vars


\* C40: transfer fails and changes no state when the sender holds fewer shares
\* than the value; transferFrom fails and changes no state when the allowance
\* or the owner's balance is below the value, and on success lowers the
\* spender's allowance by exactly the value, unless the allowance is the
\* maximum value, which it leaves as it is; a user's shares leave its balance
\* only in its own transfer or in a transferFrom covered by its allowance.
TransferNeedsBalance ==
    (last'.op = "transfer" /\ balanceOf[last'.args[1]][last'.sender] < last'.args[3])
        => (last'.err # OK /\ NothingMoved)

TransferFromNeedsBoth ==
    last'.op = "transferFrom" =>
        LET p == last'.args[1]
            from == last'.args[2]
            value == last'.args[4]
            allowed == allowance[p][<<from, last'.sender>>]
        IN  /\ (allowed < value \/ balanceOf[p][from] < value)
                   => (last'.err # OK /\ NothingMoved)
            /\ last'.err = OK =>
                   /\ allowance'[p][<<from, last'.sender>>] =
                          IF allowed = MaxUint256 THEN allowed ELSE allowed - value
                   /\ \A q \in PairAddrs, k \in Users \X Users :
                          (q # p \/ k # <<from, last'.sender>>)
                              => allowance'[q][k] = allowance[q][k]

SharesLeaveWithAuthority ==
    \A p \in Created, h \in Users :
        balanceOf'[p][h] < balanceOf[p][h] =>
            \/ Did("transfer") /\ last'.args[1] = p /\ last'.sender = h
            \/ /\ Did("transferFrom") /\ last'.args[1] = p /\ last'.args[2] = h
               /\ allowance[p][<<h, last'.sender>>] >= last'.args[4]

C40_SharesMoveWithAuthority ==
    [][TransferNeedsBalance /\ TransferFromNeedsBoth /\ SharesLeaveWithAuthority]_vars

\* a transferFrom used up the whole of a finite allowance
C40_Witness ==
    /\ last.op = "transferFrom" /\ last.err = OK
    /\ last.args[4] = 1
    /\ allowance[last.args[1]][<<last.args[2], last.sender>>] = 0

====
